---------------------------- MODULE Spec2Model ----------------------------
(***************************************************************************)
(* Model of the NYC taxi data cleaning pipeline (DataCleaner) of           *)
(* backend/data_processing: cleanData drives every raw CSV row through      *)
(* cleanRecord (missing values, timestamps, coordinates, trip metrics,      *)
(* fare data, derived features, outlier check), accumulates accepted and    *)
(* excluded records on the DataCleaner instance, writes the cleaned table   *)
(* and generates the summary report.                                        *)
(*                                                                         *)
(* JavaScript numbers are modelled as exact rationals plus NaN; a CSV cell  *)
(* is a tagged value (undefined, string, number).  Timestamps are whole     *)
(* seconds counted from 2015-01-01 00:00:00 local time.                     *)
(***************************************************************************)
EXTENDS Integers, Sequences, FiniteSets, TLC

-----------------------------------------------------------------------------
(* Bounds of the model *)

MaxBatch == 2        \* rows in the input file of the batch specification
MaxRuns == 2         \* cleanData calls in one behaviour

-----------------------------------------------------------------------------
(* JavaScript numbers: rationals n/d in lowest terms (d > 0); d = 0 is NaN *)

NaN == [n |-> 0, d |-> 0]

Abs(x) == IF x < 0 THEN -x ELSE x

RECURSIVE GCD(_, _)
GCD(a, b) == IF b = 0 THEN a ELSE GCD(b, a % b)

Rat(n, d) ==
    LET g == GCD(Abs(n), d)
    IN  [n |-> n \div g, d |-> d \div g]

Int2Rat(k) == [n |-> k, d |-> 1]

IsNaN(a) == a.d = 0

\* a < b and a > b as JavaScript evaluates them: false when either is NaN
Lt(a, b) == /\ ~IsNaN(a)
            /\ ~IsNaN(b)
            /\ IF a.d = b.d THEN a.n < b.n ELSE a.n * b.d < b.n * a.d

Gt(a, b) == Lt(b, a)

\* a / b; the callers divide only by values they have tested to be > 0
RDiv(a, b) ==
    IF IsNaN(a) \/ IsNaN(b) \/ b.n <= 0 THEN NaN
    ELSE Rat(a.n * b.d, a.d * b.n)

RMul(a, b) ==
    IF IsNaN(a) \/ IsNaN(b) THEN NaN ELSE Rat(a.n * b.n, a.d * b.d)

RSub(a, b) ==
    IF IsNaN(a) \/ IsNaN(b) THEN NaN
    ELSE Rat(a.n * b.d - b.n * a.d, a.d * b.d)

\* Math.max(0, a): NaN when a is NaN
Max0(a) == IF IsNaN(a) THEN NaN ELSE IF a.n < 0 THEN Int2Rat(0) ELSE a

\* the integer part of a, towards zero
Trunc(a) == IF a.n >= 0 THEN a.n \div a.d ELSE -((-a.n) \div a.d)

-----------------------------------------------------------------------------
(* Cells of a record: undefined, a string or a number.                      *)
(* A string is empty, blank (whitespace only), junk (text that is neither a *)
(* number nor a date), num (decimal text of v) or time (a date text, v      *)
(* seconds).                                                                *)

Undef == [t |-> "undef", k |-> "", v |-> NaN]
Str(k, v) == [t |-> "str", k |-> k, v |-> v]
Num(v) == [t |-> "num", k |-> "", v |-> v]

EmptyStr == Str("empty", NaN)
BlankStr == Str("blank", NaN)
JunkStr == Str("junk", NaN)
NumStr(n, d) == Str("num", Rat(n, d))
TimeStr(s) == Str("time", Int2Rat(s))

\* JavaScript truthiness: undefined, '', 0 and NaN are falsy
Truthy(c) ==
    CASE c.t = "undef" -> FALSE
      [] c.t = "str" -> c.k # "empty"
      [] OTHER -> ~IsNaN(c.v) /\ c.v.n # 0

\* a || b
OrElse(a, b) == IF Truthy(a) THEN a ELSE b

\* parseFloat(c): the number a decimal text or a number denotes, else NaN
parseFloat(c) ==
    CASE c.t = "num" -> Num(c.v)
      [] c.t = "str" /\ c.k = "num" -> Num(c.v)
      [] OTHER -> Num(NaN)

\* parseInt(c): as parseFloat, cut to the integer part
parseInt(c) ==
    LET f == parseFloat(c)
    IN  IF IsNaN(f.v) THEN f ELSE Num(Int2Rat(Trunc(f.v)))

\* String(c) of a number is its decimal text; a string is itself
StringOf(c) == IF c.t = "num" THEN Str("num", c.v) ELSE c

-----------------------------------------------------------------------------
(* Records: one cell per column *)

criticalFields ==
    << "pickup_datetime", "dropoff_datetime", "pickup_longitude",
       "pickup_latitude", "dropoff_longitude", "dropoff_latitude" >>

coords ==
    << "pickup_longitude", "pickup_latitude",
       "dropoff_longitude", "dropoff_latitude" >>

headers ==
    << "pickup_datetime", "dropoff_datetime", "passenger_count",
       "trip_distance", "trip_duration", "fare_amount", "tip_amount",
       "tolls_amount", "total_amount", "payment_type", "pickup_longitude",
       "pickup_latitude", "dropoff_longitude", "dropoff_latitude",
       "trip_speed_mph", "fare_per_mile", "idle_time_minutes",
       "tip_percentage" >>

Fields == { headers[k] : k \in 1..Len(headers) }

\* this.nycBounds
nycBounds ==
    [ minLat |-> Rat(404774, 10000), maxLat |-> Rat(409176, 10000),
      minLon |-> Rat(-742591, 10000), maxLon |-> Rat(-737004, 10000) ]

\* moment('2015-01-01') and moment('2020-12-31'): local midnight of the day
startDate == 0
endDate == 2191 * 86400

-----------------------------------------------------------------------------
(* The stages of cleanRecord.  Each returns the record as the stage leaves  *)
(* it (the stages write into the record they are given) and its result.     *)

\* the loop over criticalFields: "false", "true", or "throw" when trim is
\* called on a value that is not a string
RECURSIVE CriticalCheck(_, _)

\* mutant of CriticalCheck: only an absent or empty value is missing, a value
\* is never trimmed
CriticalCheckAbsentOnly(record, k) ==
    IF \E n \in k..Len(criticalFields) : ~Truthy(record[criticalFields[n]])
    THEN "false"
    ELSE "true"

CriticalCheck(record, k) ==
    IF k > Len(criticalFields) THEN "true"
    ELSE LET c == record[criticalFields[k]]
         IN  IF ~Truthy(c) THEN "false"
             ELSE IF c.t # "str" THEN "throw"
             ELSE IF c.k = "blank" THEN "false"
             ELSE CriticalCheck(record, k + 1)

\* mutant of FillMissing: a missing passenger_count becomes 0
FillMissingZero(record) ==
    [record EXCEPT
        !["passenger_count"] = OrElse(@, Num(Int2Rat(0))),
        !["trip_distance"] = OrElse(@, Num(Int2Rat(0))),
        !["fare_amount"] = OrElse(@, Num(Int2Rat(0))),
        !["tip_amount"] = OrElse(@, Num(Int2Rat(0))),
        !["tolls_amount"] = OrElse(@, Num(Int2Rat(0))),
        !["total_amount"] = OrElse(@, Num(Int2Rat(0))),
        !["payment_type"] = OrElse(@, Num(Int2Rat(1)))]

FillMissing(record) ==
    [record EXCEPT
        !["passenger_count"] = OrElse(@, Num(Int2Rat(1))),
        !["trip_distance"] = OrElse(@, Num(Int2Rat(0))),
        !["fare_amount"] = OrElse(@, Num(Int2Rat(0))),
        !["tip_amount"] = OrElse(@, Num(Int2Rat(0))),
        !["tolls_amount"] = OrElse(@, Num(Int2Rat(0))),
        !["total_amount"] = OrElse(@, Num(Int2Rat(0))),
        !["payment_type"] = OrElse(@, Num(Int2Rat(1)))]

\* mutant of handleMissingValues: the defaults are filled in and the critical
\* fields are never looked at
handleMissingValuesUnchecked(record) ==
    [res |-> "true", rec |-> FillMissing(record)]

handleMissingValues(record) ==
    LET r == CriticalCheck(record, 1)
    IN  IF r = "true" THEN [res |-> "true", rec |-> FillMissing(record)]
        ELSE [res |-> r, rec |-> record]

\* moment(c).isValid(): only a date text parses
MomentValid(c) == c.t = "str" /\ c.k = "time"

\* pickupTime.isBefore(startDate) || pickupTime.isAfter(endDate)
OutsideDateRange(pickup) == pickup < startDate \/ pickup > endDate

\* mutant of validateTimestamps: durations of exactly 30 and 86400 seconds
\* are rejected
validateTimestampsExclusive(record) ==
    LET p == record["pickup_datetime"]
        q == record["dropoff_datetime"]
        pickupTime == p.v.n
        dropoffTime == q.v.n
        duration == dropoffTime - pickupTime
        timed == [record EXCEPT !["trip_duration"] = Num(Int2Rat(duration))]
    IN  IF ~MomentValid(p) \/ ~MomentValid(q)
            THEN [res |-> "false", rec |-> record]
        ELSE IF dropoffTime < pickupTime
            THEN [res |-> "false", rec |-> record]
        ELSE IF OutsideDateRange(pickupTime)
            THEN [res |-> "false", rec |-> record]
        ELSE IF duration <= 30 \/ duration >= 86400
            THEN [res |-> "false", rec |-> timed]
        ELSE [res |-> "true", rec |-> timed]

validateTimestamps(record) ==
    LET p == record["pickup_datetime"]
        q == record["dropoff_datetime"]
        pickupTime == p.v.n
        dropoffTime == q.v.n
        duration == dropoffTime - pickupTime
        timed == [record EXCEPT !["trip_duration"] = Num(Int2Rat(duration))]
    IN  IF ~MomentValid(p) \/ ~MomentValid(q)
            THEN [res |-> "false", rec |-> record]
        ELSE IF dropoffTime < pickupTime
            THEN [res |-> "false", rec |-> record]
        ELSE IF OutsideDateRange(pickupTime)
            THEN [res |-> "false", rec |-> record]
        ELSE IF duration < 30 \/ duration > 86400
            THEN [res |-> "false", rec |-> timed]
        ELSE [res |-> "true", rec |-> timed]

\* the parsing loop over coords: stops at the first value that is NaN
RECURSIVE ParseCoords(_, _)
ParseCoords(record, k) ==
    IF k > Len(coords) THEN [res |-> "true", rec |-> record]
    ELSE LET value == parseFloat(record[coords[k]])
         IN  IF IsNaN(value.v) THEN [res |-> "false", rec |-> record]
             ELSE ParseCoords([record EXCEPT ![coords[k]] = value], k + 1)

\* mutant of OutsideBounds: a coordinate on the edge of the box is outside
OutsideBoundsInclusive(record) ==
    \/ ~Gt(record["pickup_latitude"].v, nycBounds.minLat)
    \/ ~Lt(record["pickup_latitude"].v, nycBounds.maxLat)
    \/ ~Gt(record["pickup_longitude"].v, nycBounds.minLon)
    \/ ~Lt(record["pickup_longitude"].v, nycBounds.maxLon)
    \/ ~Gt(record["dropoff_latitude"].v, nycBounds.minLat)
    \/ ~Lt(record["dropoff_latitude"].v, nycBounds.maxLat)
    \/ ~Gt(record["dropoff_longitude"].v, nycBounds.minLon)
    \/ ~Lt(record["dropoff_longitude"].v, nycBounds.maxLon)

OutsideBounds(record) ==
    \/ Lt(record["pickup_latitude"].v, nycBounds.minLat)
    \/ Gt(record["pickup_latitude"].v, nycBounds.maxLat)
    \/ Lt(record["pickup_longitude"].v, nycBounds.minLon)
    \/ Gt(record["pickup_longitude"].v, nycBounds.maxLon)
    \/ Lt(record["dropoff_latitude"].v, nycBounds.minLat)
    \/ Gt(record["dropoff_latitude"].v, nycBounds.maxLat)
    \/ Lt(record["dropoff_longitude"].v, nycBounds.minLon)
    \/ Gt(record["dropoff_longitude"].v, nycBounds.maxLon)

validateCoordinates(record) ==
    LET parsed == ParseCoords(record, 1)
    IN  IF parsed.res = "false" THEN parsed
        ELSE IF OutsideBounds(parsed.rec)
            THEN [res |-> "false", rec |-> parsed.rec]
        ELSE parsed

validateTripMetrics(record) ==
    LET r1 == [record EXCEPT !["passenger_count"] = parseInt(@)]
        r2 == [r1 EXCEPT !["trip_distance"] = parseFloat(@)]
    IN  IF \/ Lt(r1["passenger_count"].v, Int2Rat(1))
           \/ Gt(r1["passenger_count"].v, Int2Rat(6))
            THEN [res |-> "false", rec |-> r1]
        ELSE IF \/ Lt(r2["trip_distance"].v, Int2Rat(0))
                \/ Gt(r2["trip_distance"].v, Int2Rat(500))
            THEN [res |-> "false", rec |-> r2]
        ELSE [res |-> "true", rec |-> r2]

validateFareData(record) ==
    LET r1 == [record EXCEPT
                  !["fare_amount"] = parseFloat(@),
                  !["tip_amount"] = parseFloat(OrElse(@, Num(Int2Rat(0)))),
                  !["tolls_amount"] = parseFloat(OrElse(@, Num(Int2Rat(0)))),
                  !["total_amount"] = parseFloat(@)]
        r2 == [r1 EXCEPT !["payment_type"] = parseInt(@)]
    IN  IF \/ Lt(r1["fare_amount"].v, Int2Rat(0))
           \/ Gt(r1["fare_amount"].v, Int2Rat(1000))
           \/ Lt(r1["tip_amount"].v, Int2Rat(0))
           \/ Gt(r1["tip_amount"].v, Int2Rat(500))
           \/ Lt(r1["tolls_amount"].v, Int2Rat(0))
           \/ Gt(r1["tolls_amount"].v, Int2Rat(100))
           \/ Lt(r1["total_amount"].v, Int2Rat(0))
           \/ Gt(r1["total_amount"].v, Int2Rat(2000))
            THEN [res |-> "false", rec |-> r1]
        ELSE IF \/ Lt(r2["payment_type"].v, Int2Rat(1))
                \/ Gt(r2["payment_type"].v, Int2Rat(6))
            THEN [res |-> "false", rec |-> r2]
        ELSE [res |-> "true", rec |-> r2]

\* mutant of TripSpeed: the cap at 100 is missing
TripSpeedUncapped(distance, duration) ==
    IF Gt(distance, Int2Rat(0)) /\ Gt(duration, Int2Rat(0))
    THEN RDiv(distance, RDiv(duration, Int2Rat(3600)))
    ELSE Int2Rat(0)

\* DERIVED FEATURE 1: trip speed in mph, capped at 100
TripSpeed(distance, duration) ==
    IF Gt(distance, Int2Rat(0)) /\ Gt(duration, Int2Rat(0))
    THEN LET durationHours == RDiv(duration, Int2Rat(3600))
             speed == RDiv(distance, durationHours)
         IN  IF Gt(speed, Int2Rat(100)) THEN Int2Rat(100) ELSE speed
    ELSE Int2Rat(0)

\* mutant of FarePerMile: the division is not guarded
FarePerMileUnguarded(fare, distance) == RDiv(fare, distance)

\* DERIVED FEATURE 2: fare per mile
FarePerMile(fare, distance) ==
    IF Gt(distance, Int2Rat(0)) THEN RDiv(fare, distance) ELSE Int2Rat(0)

\* DERIVED FEATURE 3: idle time in minutes, against an assumed 12 mph
IdleTime(distance, duration) ==
    IF Gt(distance, Int2Rat(0)) /\ Gt(duration, Int2Rat(0))
    THEN LET expectedMovingTime ==
                 RMul(RDiv(distance, Int2Rat(12)), Int2Rat(60))
             actualTime == RDiv(duration, Int2Rat(60))
         IN  Max0(RSub(actualTime, expectedMovingTime))
    ELSE Int2Rat(0)

\* additional derived feature: tip percentage
TipPercentage(tip, fare) ==
    IF Gt(fare, Int2Rat(0)) THEN RMul(RDiv(tip, fare), Int2Rat(100))
    ELSE Int2Rat(0)

calculateDerivedFeatures(record) ==
    LET distance == record["trip_distance"].v
        duration == record["trip_duration"].v
        fare == record["fare_amount"].v
        tip == record["tip_amount"].v
    IN  [record EXCEPT
            !["trip_speed_mph"] = Num(TripSpeed(distance, duration)),
            !["fare_per_mile"] = Num(FarePerMile(fare, distance)),
            !["idle_time_minutes"] = Num(IdleTime(distance, duration)),
            !["tip_percentage"] = Num(TipPercentage(tip, fare))]

\* mutant of isOutlier: the thresholds themselves count as outliers
isOutlierInclusive(record) ==
    \/ ~Lt(record["trip_speed_mph"].v, Int2Rat(80))
    \/ ~Lt(record["fare_per_mile"].v, Int2Rat(50))
    \/ ~Lt(record["idle_time_minutes"].v, Int2Rat(120))

isOutlier(record) ==
    \/ Gt(record["trip_speed_mph"].v, Int2Rat(80))
    \/ Gt(record["fare_per_mile"].v, Int2Rat(50))
    \/ Gt(record["idle_time_minutes"].v, Int2Rat(120))

-----------------------------------------------------------------------------
(* Input rows.  BaseRow is a well-formed trip: 2019-05-01 08:00:00, twenty  *)
(* minutes, 3 miles, fare 12.                                               *)

BasePickup == 1581 * 86400 + 8 * 3600

Row(pickup, dropoff, distance, fare) ==
    [f \in Fields |->
        CASE f = "pickup_datetime" -> pickup
          [] f = "dropoff_datetime" -> dropoff
          [] f = "passenger_count" -> NumStr(2, 1)
          [] f = "trip_distance" -> distance
          [] f = "fare_amount" -> fare
          [] f = "tip_amount" -> NumStr(2, 1)
          [] f = "tolls_amount" -> NumStr(0, 1)
          [] f = "total_amount" -> NumStr(14, 1)
          [] f = "payment_type" -> NumStr(1, 1)
          [] f = "pickup_longitude" -> NumStr(-7398, 100)
          [] f = "pickup_latitude" -> NumStr(4075, 100)
          [] f = "dropoff_longitude" -> NumStr(-7397, 100)
          [] f = "dropoff_latitude" -> NumStr(4076, 100)
          [] OTHER -> Undef]

Trip(pickup, duration, distance, fare) ==
    Row(TimeStr(pickup), TimeStr(pickup + duration), distance, fare)

BaseRow == Trip(BasePickup, 1200, NumStr(3, 1), NumStr(12, 1))

With(row, f, c) == [row EXCEPT ![f] = c]

\* pickup times around both ends of the accepted window
Pickups ==
    { startDate - 1, startDate, BasePickup, endDate - 1, endDate,
      endDate + 1, endDate + 43200, endDate + 86399, endDate + 86400 }

Durations == { -60, 0, 29, 30, 1200, 3600, 8100, 8101, 86400, 86401 }

Distances ==
    { NumStr(0, 1), NumStr(3, 1), NumStr(10, 1), NumStr(80, 1),
      NumStr(8001, 100), NumStr(500, 1), NumStr(50001, 100), NumStr(-1, 1),
      JunkStr, EmptyStr }

Fares ==
    { NumStr(12, 1), NumStr(150, 1), NumStr(15001, 100), NumStr(0, 1),
      JunkStr }

TimeRows ==
    { Trip(p, d, NumStr(3, 1), NumStr(12, 1)) : p \in Pickups, d \in Durations }

FeatureRows ==
    { Trip(BasePickup, d, m, f) :
          d \in { 30, 1200, 3600, 8100, 8101, 86400 },
          m \in Distances, f \in Fares }

CriticalCells ==
    { Undef, EmptyStr, BlankStr, JunkStr, Num(Int2Rat(5)) }

LatCells ==
    { NumStr(404774, 10000), NumStr(404773, 10000), NumStr(409176, 10000),
      NumStr(409177, 10000), NumStr(415, 10) }

LonCells ==
    { NumStr(-742591, 10000), NumStr(-742592, 10000),
      NumStr(-737004, 10000), NumStr(-737003, 10000) }

OtherCells(f) ==
    CASE f = "passenger_count" ->
             { Undef, EmptyStr, BlankStr, JunkStr, NumStr(0, 1), NumStr(1, 1),
               NumStr(6, 1), NumStr(7, 1), NumStr(5, 2), NumStr(-1, 1) }
      [] f = "tip_amount" ->
             { Undef, EmptyStr, JunkStr, NumStr(0, 1), NumStr(500, 1),
               NumStr(501, 1), NumStr(-1, 1) }
      [] f = "tolls_amount" ->
             { Undef, JunkStr, NumStr(100, 1), NumStr(101, 1), NumStr(-1, 1) }
      [] f = "total_amount" ->
             { Undef, JunkStr, NumStr(0, 1), NumStr(2000, 1), NumStr(2001, 1),
               NumStr(-1, 1) }
      [] f = "payment_type" ->
             { Undef, EmptyStr, JunkStr, NumStr(0, 1), NumStr(6, 1),
               NumStr(7, 1) }
      [] f = "fare_amount" ->
             { Undef, NumStr(1000, 1), NumStr(100001, 100), NumStr(-1, 1) }
      [] f = "trip_distance" -> { Undef, BlankStr }

CriticalSet == { criticalFields[k] : k \in 1..Len(criticalFields) }

\* BaseRow with one cell replaced
VariantRows ==
    { With(BaseRow, f, c) : f \in CriticalSet, c \in CriticalCells }
    \cup { With(BaseRow, f, c) :
               f \in { "pickup_latitude", "dropoff_latitude" }, c \in LatCells }
    \cup { With(BaseRow, f, c) :
               f \in { "pickup_longitude", "dropoff_longitude" },
               c \in LonCells }
    \cup UNION { { With(BaseRow, f, c) : c \in OtherCells(f) } :
                   f \in { "passenger_count", "tip_amount", "tolls_amount",
                           "total_amount", "payment_type", "fare_amount",
                           "trip_distance" } }

\* rows that fail more than one stage
MixedRows ==
    { With(With(BaseRow, f, c), "pickup_latitude", NumStr(415, 10)) :
          f \in { "pickup_datetime", "dropoff_longitude", "dropoff_latitude" },
          c \in { Undef, EmptyStr, BlankStr } }
    \cup { With(With(BaseRow, "passenger_count", NumStr(7, 1)), f, c) :
               f \in { "pickup_latitude", "fare_amount", "dropoff_datetime" },
               c \in { JunkStr, NumStr(-1, 1) } }
    \cup { With(With(BaseRow, "pickup_datetime", Undef),
                "dropoff_datetime", Num(Int2Rat(5))),
           With(With(BaseRow, "pickup_datetime", Num(Int2Rat(5))),
                "dropoff_datetime", Undef) }

NonCritical ==
    { "passenger_count", "trip_distance", "fare_amount", "tip_amount",
      "tolls_amount", "total_amount", "payment_type" }

\* rows with several non-critical cells absent or empty
DefaultRows ==
    { [f \in Fields |-> IF f \in S THEN c ELSE base[f]] :
          S \in (SUBSET NonCritical) \ { {} },
          c \in { Undef, EmptyStr },
          base \in { BaseRow, With(BaseRow, "pickup_latitude", NumStr(415, 10)) } }

AllRows ==
    TimeRows \cup FeatureRows \cup VariantRows \cup MixedRows \cup DefaultRows

\* one row for each way a record can end, for the batch specification
BatchRows ==
    { BaseRow,
      With(BaseRow, "dropoff_latitude", EmptyStr),
      Trip(BasePickup, -60, NumStr(3, 1), NumStr(12, 1)),
      With(BaseRow, "pickup_latitude", NumStr(415, 10)),
      With(BaseRow, "passenger_count", NumStr(7, 1)),
      With(BaseRow, "payment_type", NumStr(0, 1)),
      Trip(BasePickup, 30, NumStr(3, 1), NumStr(12, 1)),
      With(BaseRow, "pickup_longitude", Num(Int2Rat(5))),
      With(BaseRow, "passenger_count", JunkStr),
      Trip(BasePickup, 3600, NumStr(0, 1), NumStr(12, 1)) }

RECURSIVE SeqsUpTo(_, _)
SeqsUpTo(S, n) ==
    IF n = 0 THEN { <<>> }
    ELSE LET shorter == SeqsUpTo(S, n - 1)
         IN  shorter \cup { Append(q, x) : q \in shorter, x \in S }

-----------------------------------------------------------------------------
(* State *)

VARIABLES
    inputFile,          \* the rows of the input CSV file
    pc,                 \* where the DataCleaner is: idle, read, loop, report, failed
    run,                \* number of cleanData calls made so far
    error,              \* what made the last cleanData call fail
    rawData,            \* cleanData: the rows read; cleanRecord writes into them
    i,                  \* cleanData: loop index (0-based)
    stage,              \* cleanRecord: the stage to run next on rawData[i]
    processedCount,     \* cleanData: local counter
    excludedCount,      \* cleanData: local counter
    processedRecords,   \* this.processedRecords
    excludedRecords,    \* this.excludedRecords
    written,            \* the contents writeCleanedData wrote, one per call
    reports,            \* the report objects generateSummaryReport built
    reportFiles,        \* number of cleaning_report.json files written
    outcomes,           \* history: per record of this run, stages run and verdict
    stagesRun,          \* history: stages already run on rawData[i]
    excludedAtStart,    \* history: Len(excludedRecords) when cleanData was called
    csvFile,            \* the cleaned CSV file loadData is given
    lpc,                \* where loadData is: idle, reading, ended, returned,
                        \* thrown, crashed
    pos,                \* loadData: rows the read stream has delivered
    records,            \* loadData: local buffer of rows
    recordCount,        \* loadData: local counter
    batchCount,         \* loadData: local counter
    dbQueue,            \* the batches queued on the database, oldest first
    trips,              \* the rows of table trips
    loadResult,         \* what loadData returned
    serverTrips,        \* server.js: the rows of its table trips, newest first
    allTrips,           \* dashboardState.allTrips
    filteredTrips,      \* dashboardState.filteredTrips
    currentPage,        \* dashboardState.currentPage
    currentSort,        \* dashboardState.currentSort
    sortDirection,      \* dashboardState.sortDirection
    shownStats,         \* the overview metrics the page shows
    inflight,           \* the fetch calls that have not been answered yet
    ops,                \* number of dashboard operations started so far
    completed,          \* history: the operation the last step has completed
    lastOp,             \* history: the operation the last step belongs to
    zipAt,              \* which of the three locations holds train.zip (0: none)
    zipEntries,         \* what train.zip holds: csv, nocsv or corrupt
    ppc,                \* where processData is
    stepsRun,           \* history: the steps processData has started, in order
    successPrinted,     \* the success message was printed
    exitCode,           \* the exit code of the process, -1 while it runs
    cache,              \* API.cache: key -> entry
    now,                \* Date.now(), in ms since the page was loaded
    pending,            \* the fetch calls of API.request not yet settled
    sentSinceClear,     \* history: keys fetched since the last clearCache
    lastRequest         \* history: what the last step of API did

cleanerVars ==
    << inputFile, pc, run, error, rawData, i, stage, processedCount,
       excludedCount, processedRecords, excludedRecords, written, reports,
       reportFiles, outcomes, stagesRun, excludedAtStart >>

loaderVars ==
    << csvFile, lpc, pos, records, recordCount, batchCount, dbQueue, trips,
       loadResult >>

dashVars ==
    << serverTrips, allTrips, filteredTrips, currentPage, currentSort,
       sortDirection, shownStats, inflight, ops, completed, lastOp >>

procVars ==
    << zipAt, zipEntries, ppc, stepsRun, successPrinted, exitCode >>

apiVars == << cache, now, pending, sentSinceClear, lastRequest >>

\* what the DataCleaner, the DatabaseLoader, the dashboard, processData and
\* the API client leave alone
notCleanerVars == << loaderVars, dashVars, procVars, apiVars >>

notLoaderVars == << cleanerVars, dashVars, procVars, apiVars >>

notDashVars == << cleanerVars, loaderVars, procVars, apiVars >>

notProcVars == << loaderVars, dashVars, apiVars >>

notApiVars == << cleanerVars, loaderVars, dashVars, procVars >>

vars == << cleanerVars, loaderVars, dashVars, procVars, apiVars >>

\* the state a new DataCleaner is in, before any cleanData call
Constructed ==
    /\ pc = "idle"
    /\ run = 0
    /\ error = "none"
    /\ rawData = <<>>
    /\ i = 0
    /\ stage = "handleMissingValues"
    /\ processedCount = 0
    /\ excludedCount = 0
    /\ processedRecords = <<>>
    /\ excludedRecords = <<>>
    /\ written = <<>>
    /\ reports = <<>>
    /\ reportFiles = 0
    /\ outcomes = <<>>
    /\ stagesRun = <<>>
    /\ excludedAtStart = 0

\* no cleaned file at hand
NoFile == [exists |-> FALSE, rows |-> <<>>]

\* the state of a DatabaseLoader whose table trips has been emptied, before
\* loadData is called
LoaderReady ==
    /\ lpc = "idle"
    /\ pos = 0
    /\ records = <<>>
    /\ recordCount = 0
    /\ batchCount = 0
    /\ dbQueue = <<>>
    /\ trips = <<>>
    /\ loadResult = -1

\* the value of an input of the page: '' or the text of a number
Blank == [blank |-> TRUE, v |-> 0]

Typed(v) == [blank |-> FALSE, v |-> v]

\* the filter inputs as resetFilters leaves them
EmptyForm ==
    [startDate |-> Blank, endDate |-> Blank, passengerCount |-> Blank,
     minFare |-> Blank, maxFare |-> Blank, minDistance |-> Blank,
     maxDistance |-> Blank]

\* the metric cards before any updateStatsDisplay
NoStats ==
    [totalTrips |-> -1, avgFare |-> -1, avgDuration |-> -1,
     totalRevenue |-> -1]

\* const dashboardState = {...}: the page before DOMContentLoaded
dashboardState ==
    /\ allTrips = <<>>
    /\ filteredTrips = <<>>
    /\ currentPage = 1
    /\ currentSort = "pickupTime"
    /\ sortDirection = "desc"
    /\ shownStats = NoStats
    /\ inflight = <<>>
    /\ ops = 0
    /\ completed = "none"
    /\ lastOp = "none"

\* the endpoint-plus-options keys the pages request
Keys == { "/zones{}", "/trips{}" }

NoEntry == [present |-> FALSE, data |-> 0, timestamp |-> 0]

NoRequest == [kind |-> "none", key |-> "", data |-> 0]

\* new API(): an empty cache
NewAPI ==
    /\ cache = [k \in Keys |-> NoEntry]
    /\ now = 0
    /\ pending = <<>>
    /\ sentSinceClear = {}
    /\ lastRequest = NoRequest

\* processData has not been called
NotStarted ==
    /\ zipAt = 0
    /\ zipEntries = "csv"
    /\ ppc = "idle"
    /\ stepsRun = <<>>
    /\ successPrinted = FALSE
    /\ exitCode = -1

\* the page, processData and the API client before anything has run
Others == dashboardState /\ NotStarted /\ NewAPI

Init ==
    /\ inputFile \in SeqsUpTo(BatchRows, MaxBatch)
    /\ Constructed
    /\ csvFile = NoFile
    /\ LoaderReady
    /\ serverTrips = <<>>
    /\ Others

InitRecord ==
    /\ inputFile \in { << r >> : r \in AllRows }
    /\ Constructed
    /\ csvFile = NoFile
    /\ LoaderReady
    /\ serverTrips = <<>>
    /\ Others

-----------------------------------------------------------------------------
(* new DataCleaner(): a fresh instance replaces the one that has run *)

NewDataCleaner ==
    /\ pc = "failed"
    /\ run < MaxRuns
    /\ pc' = "idle"
    /\ processedRecords' = <<>>
    /\ excludedRecords' = <<>>
    /\ outcomes' = <<>>
    /\ stagesRun' = <<>>
    /\ excludedAtStart' = 0
    /\ UNCHANGED notCleanerVars
    /\ UNCHANGED << inputFile, run, error, rawData, i, stage, processedCount,
                    excludedCount, written, reports, reportFiles >>

(* cleanData(inputFile, outputFile) is called on the instance *)
CleanDataCall ==
    /\ pc \in { "idle", "failed" }
    /\ run < MaxRuns
    /\ pc' = "read"
    /\ run' = run + 1
    /\ error' = "none"
    /\ rawData' = <<>>
    /\ outcomes' = <<>>
    /\ stagesRun' = <<>>
    /\ excludedAtStart' = Len(excludedRecords)
    /\ UNCHANGED notCleanerVars
    /\ UNCHANGED << inputFile, i, stage, processedCount, excludedCount,
                    processedRecords, excludedRecords, written, reports,
                    reportFiles >>

(* the read stream's 'data' event: rawData.push(row) *)
ReadRow ==
    /\ pc = "read"
    /\ Len(rawData) < Len(inputFile)
    /\ rawData' = Append(rawData, inputFile[Len(rawData) + 1])
    /\ UNCHANGED notCleanerVars
    /\ UNCHANGED << inputFile, pc, run, error, i, stage, processedCount,
                    excludedCount, processedRecords, excludedRecords, written,
                    reports, reportFiles, outcomes, stagesRun, excludedAtStart >>

(* the 'end' event resolves the promise; the counters and the loop start *)
ReadEnd ==
    /\ pc = "read"
    /\ Len(rawData) = Len(inputFile)
    /\ pc' = "loop"
    /\ processedCount' = 0
    /\ excludedCount' = 0
    /\ i' = 0
    /\ stage' = "handleMissingValues"
    /\ UNCHANGED notCleanerVars
    /\ UNCHANGED << inputFile, run, error, rawData, processedRecords,
                    excludedRecords, written, reports, reportFiles, outcomes,
                    stagesRun, excludedAtStart >>

(* the 'error' event rejects the promise: cleanData throws *)
ReadError ==
    /\ pc = "read"
    /\ pc' = "failed"
    /\ error' = "stream_error"
    /\ UNCHANGED notCleanerVars
    /\ UNCHANGED << inputFile, run, rawData, i, stage, processedCount,
                    excludedCount, processedRecords, excludedRecords, written,
                    reports, reportFiles, outcomes, stagesRun, excludedAtStart >>

-----------------------------------------------------------------------------
(* The loop body: cleanRecord(rawData[i], i), one stage per step *)

InLoop(s) == pc = "loop" /\ i < Len(rawData) /\ stage = s

record == rawData[i + 1]

\* the stage passed: the record goes on to the next stage
Pass(rec, next) ==
    /\ rawData' = [rawData EXCEPT ![i + 1] = rec]
    /\ stage' = next
    /\ stagesRun' = Append(stagesRun, stage)
    /\ UNCHANGED notCleanerVars
    /\ UNCHANGED << inputFile, pc, run, error, i, processedCount,
                    excludedCount, processedRecords, excludedRecords, written,
                    reports, reportFiles, outcomes, excludedAtStart >>

\* mutant of NextRecord: the next record resumes at the stage the last one
\* stopped at
NextRecordKeepStage(rec, verdict) ==
    /\ rawData' = [rawData EXCEPT ![i + 1] = rec]
    /\ i' = i + 1
    /\ stage' = stage
    /\ outcomes' = Append(outcomes, [stages |-> Append(stagesRun, stage),
                                     verdict |-> verdict])
    /\ stagesRun' = <<>>
    /\ UNCHANGED notCleanerVars
    /\ UNCHANGED << inputFile, pc, run, error, written, reports, reportFiles,
                    excludedAtStart >>

\* the record is done: the loop goes to the next one
NextRecord(rec, verdict) ==
    /\ rawData' = [rawData EXCEPT ![i + 1] = rec]
    /\ i' = i + 1
    /\ stage' = "handleMissingValues"
    /\ outcomes' = Append(outcomes, [stages |-> Append(stagesRun, stage),
                                     verdict |-> verdict])
    /\ stagesRun' = <<>>
    /\ UNCHANGED notCleanerVars
    /\ UNCHANGED << inputFile, pc, run, error, written, reports, reportFiles,
                    excludedAtStart >>

\* mutant of ExclusionEntry: the entry carries the number of records kept so
\* far, the position the record would have had in the output
ExclusionEntryOutputIndex(index, reason, details, message) ==
    [index |-> processedCount, reason |-> reason, details |-> details,
     error |-> message]

ExclusionEntry(index, reason, details, message) ==
    [index |-> index, reason |-> reason, details |-> details,
     error |-> message]

\* the stage failed: cleanRecord logs the exclusion and returns null,
\* cleanData counts it
Reject(rec, reason, details) ==
    /\ excludedRecords' =
           Append(excludedRecords, ExclusionEntry(i, reason, details, ""))
    /\ excludedCount' = excludedCount + 1
    /\ UNCHANGED << processedRecords, processedCount >>
    /\ NextRecord(rec, reason)

\* mutant of Catch: the exclusion is logged but not counted
CatchUncounted(rec, message) ==
    /\ excludedRecords' =
           Append(excludedRecords,
                  ExclusionEntry(i, "processing_error", "", message))
    /\ UNCHANGED << processedRecords, processedCount, excludedCount >>
    /\ NextRecord(rec, "processing_error")

\* mutant of Catch: the exclusion is counted but not logged
CatchUnlogged(rec, message) ==
    /\ excludedCount' = excludedCount + 1
    /\ UNCHANGED << processedRecords, processedCount, excludedRecords >>
    /\ NextRecord(rec, "processing_error")

\* the stage threw: the catch of cleanData logs and counts it
Catch(rec, message) ==
    /\ excludedRecords' =
           Append(excludedRecords,
                  ExclusionEntry(i, "processing_error", "", message))
    /\ excludedCount' = excludedCount + 1
    /\ UNCHANGED << processedRecords, processedCount >>
    /\ NextRecord(rec, "processing_error")

\* mutant of Accept: the record is put in front of the list
AcceptInFront(rec) ==
    /\ processedRecords' =
           << [ref |-> << run, i >>, rec |-> rec] >> \o processedRecords
    /\ processedCount' = processedCount + 1
    /\ UNCHANGED << excludedRecords, excludedCount >>
    /\ NextRecord(rec, "accepted")

\* cleanRecord returned the record: cleanData keeps it
Accept(rec) ==
    /\ processedRecords' =
           Append(processedRecords, [ref |-> << run, i >>, rec |-> rec])
    /\ processedCount' = processedCount + 1
    /\ UNCHANGED << excludedRecords, excludedCount >>
    /\ NextRecord(rec, "accepted")

HandleMissingValues ==
    /\ InLoop("handleMissingValues")
    /\ LET r == handleMissingValues(record)
       IN  CASE r.res = "true" -> Pass(r.rec, "validateTimestamps")
             [] r.res = "false" ->
                    Reject(r.rec, "missing_critical_data",
                           "Missing pickup/dropoff datetime or coordinates")
             [] OTHER -> Catch(r.rec, "record[field].trim is not a function")

ValidateTimestamps ==
    /\ InLoop("validateTimestamps")
    /\ LET r == validateTimestamps(record)
       IN  IF r.res = "true" THEN Pass(r.rec, "validateCoordinates")
           ELSE Reject(r.rec, "invalid_timestamps",
                       "Invalid or inconsistent pickup/dropoff times")

ValidateCoordinates ==
    /\ InLoop("validateCoordinates")
    /\ LET r == validateCoordinates(record)
       IN  IF r.res = "true" THEN Pass(r.rec, "validateTripMetrics")
           ELSE Reject(r.rec, "invalid_coordinates",
                       "Coordinates outside NYC bounds or invalid")

ValidateTripMetrics ==
    /\ InLoop("validateTripMetrics")
    /\ LET r == validateTripMetrics(record)
       IN  IF r.res = "true" THEN Pass(r.rec, "validateFareData")
           ELSE Reject(r.rec, "invalid_trip_metrics",
                       "Invalid passenger count, distance, or duration")

ValidateFareData ==
    /\ InLoop("validateFareData")
    /\ LET r == validateFareData(record)
       IN  IF r.res = "true" THEN Pass(r.rec, "calculateDerivedFeatures")
           ELSE Reject(r.rec, "invalid_fare_data",
                       "Invalid fare amounts or payment type")

CalculateDerivedFeatures ==
    /\ InLoop("calculateDerivedFeatures")
    /\ Pass(calculateDerivedFeatures(record), "isOutlier")

IsOutlier ==
    /\ InLoop("isOutlier")
    /\ IF isOutlier(record)
       THEN Reject(record, "outlier", "Record exceeds reasonable bounds")
       ELSE Accept(record)

-----------------------------------------------------------------------------
(* After the loop *)

\* one line of the cleaned table: record[header] || '' for every header
CsvRow(rec) == [h \in Fields |-> StringOf(OrElse(rec[h], EmptyStr))]

\* the lines writeCleanedData writes under the header line
CsvContent(recs) == [k \in 1..Len(recs) |-> CsvRow(recs[k].rec)]

WriteCleanedData ==
    /\ pc = "loop"
    /\ i = Len(rawData)
    /\ written' = Append(written, CsvContent(processedRecords))
    /\ pc' = "report"
    /\ UNCHANGED notCleanerVars
    /\ UNCHANGED << inputFile, run, error, rawData, i, stage, processedCount,
                    excludedCount, processedRecords, excludedRecords, reports,
                    reportFiles, outcomes, stagesRun, excludedAtStart >>

\* getExclusionSummary(): reason -> number of entries of this.excludedRecords
getExclusionSummary(entries) ==
    [r \in { entries[k].reason : k \in 1..Len(entries) } |->
        Cardinality({ k \in 1..Len(entries) : entries[k].reason = r })]

\* the report object; the rate is excluded / total * 100
Report(totalRecords, processed, excluded, entries) ==
    [summary |-> [totalRecords |-> totalRecords,
                  processedRecords |-> processed,
                  excludedRecords |-> excluded,
                  exclusionRate |->
                      IF totalRecords = 0 THEN NaN
                      ELSE Rat(excluded * 100, totalRecords)],
     exclusionReasons |-> getExclusionSummary(entries)]

(* generateSummaryReport builds the report object and then evaluates        *)
(* path.dirname(outputFile); outputFile is a parameter of cleanData and of  *)
(* writeCleanedData, not of generateSummaryReport, nor a name of the        *)
(* module: the reference throws a ReferenceError before fs.writeFileSync,   *)
(* and cleanData rejects.                                                   *)
GenerateSummaryReport ==
    /\ pc = "report"
    /\ reports' = Append(reports,
                         Report(Len(rawData), processedCount, excludedCount,
                                excludedRecords))
    /\ pc' = "failed"
    /\ error' = "ReferenceError"
    /\ UNCHANGED notCleanerVars
    /\ UNCHANGED << inputFile, run, rawData, i, stage, processedCount,
                    excludedCount, processedRecords, excludedRecords, written,
                    reportFiles, outcomes, stagesRun, excludedAtStart >>

Next ==
    \/ NewDataCleaner
    \/ CleanDataCall
    \/ ReadRow
    \/ ReadEnd
    \/ ReadError
    \/ HandleMissingValues
    \/ ValidateTimestamps
    \/ ValidateCoordinates
    \/ ValidateTripMetrics
    \/ ValidateFareData
    \/ CalculateDerivedFeatures
    \/ IsOutlier
    \/ WriteCleanedData
    \/ GenerateSummaryReport

\* batches of up to MaxBatch rows
Spec == Init /\ [][Next]_vars

\* single rows, over the whole range of cell values
SpecRecord == InitRecord /\ [][Next]_vars

-----------------------------------------------------------------------------
(* cleanRecord as a function of the record alone: the verdict and the       *)
(* record as the last stage left it                                         *)

cleanRecord(row) ==
    LET a == handleMissingValues(row)
        b == validateTimestamps(a.rec)
        c == validateCoordinates(b.rec)
        d == validateTripMetrics(c.rec)
        e == validateFareData(d.rec)
        f == calculateDerivedFeatures(e.rec)
    IN  CASE a.res = "throw" -> [verdict |-> "processing_error", rec |-> a.rec]
          [] a.res = "false" ->
                 [verdict |-> "missing_critical_data", rec |-> a.rec]
          [] b.res = "false" -> [verdict |-> "invalid_timestamps", rec |-> b.rec]
          [] c.res = "false" ->
                 [verdict |-> "invalid_coordinates", rec |-> c.rec]
          [] d.res = "false" ->
                 [verdict |-> "invalid_trip_metrics", rec |-> d.rec]
          [] e.res = "false" -> [verdict |-> "invalid_fare_data", rec |-> e.rec]
          [] isOutlier(f) -> [verdict |-> "outlier", rec |-> f]
          [] OTHER -> [verdict |-> "accepted", rec |-> f]

-----------------------------------------------------------------------------
(* DatabaseLoader.loadData: the cleaned file is read row by row, the rows    *)
(* are handed to the database in batches of batchSize, each batch as one    *)
(* transaction.  Table trips is empty when loadData is called.              *)

\* this.batchSize.  The source sets 1000; the files of the model have up to
\* MaxRows rows, and the batch is scaled to 2 rows so that a file spans
\* several batches.
batchSize == 2

MaxRows == 5

textColumns == { "pickup_datetime", "dropoff_datetime" }

intColumns == { "passenger_count", "trip_duration", "payment_type" }

\* the values stmt.run binds for one row of the file
BindRow(row) ==
    [h \in Fields |->
        IF h \in textColumns THEN row[h]
        ELSE IF h \in intColumns THEN parseInt(row[h])
        ELSE parseFloat(row[h])]

\* NOT NULL: an undefined value and NaN are bound as NULL
NotNull(c) == IF c.t = "num" THEN ~IsNaN(c.v) ELSE c.t # "undef"

\* CHECK (column >= lo AND column <= hi); a CHECK on NULL does not fail
InRange(c, lo, hi) == ~Lt(c.v, Int2Rat(lo)) /\ ~Gt(c.v, Int2Rat(hi))

\* the INSERT of the row satisfies the constraints of table trips
Insertable(row) ==
    LET b == BindRow(row)
    IN  /\ \A h \in Fields : NotNull(b[h])
        /\ InRange(b["passenger_count"], 1, 6)
        /\ InRange(b["trip_distance"], 0, 500)
        /\ InRange(b["trip_duration"], 30, 86400)
        /\ InRange(b["fare_amount"], 0, 1000)
        /\ InRange(b["tip_amount"], 0, 500)
        /\ InRange(b["tolls_amount"], 0, 100)
        /\ InRange(b["total_amount"], 0, 2000)
        /\ InRange(b["payment_type"], 1, 6)

\* the well-formed trip with a toll of 5: no cell of its cleaned row is 0
TollRow ==
    With(With(BaseRow, "tolls_amount", NumStr(5, 1)),
         "total_amount", NumStr(19, 1))

\* rows writeCleanedData writes for accepted records
CleanedRows == { CsvRow(cleanRecord(r).rec) : r \in { TollRow, BaseRow } }

Files ==
    { [exists |-> TRUE, rows |-> q] : q \in SeqsUpTo(CleanedRows, MaxRows) }
    \cup { NoFile }

InitLoad ==
    /\ inputFile = <<>>
    /\ Constructed
    /\ csvFile \in Files
    /\ LoaderReady
    /\ serverTrips = <<>>
    /\ Others

(* loadData(csvFile), up to the start of the read stream *)
LoadData ==
    /\ lpc = "idle"
    /\ lpc' = IF csvFile.exists THEN "reading" ELSE "thrown"
    /\ records' = <<>>
    /\ recordCount' = 0
    /\ batchCount' = 0
    /\ UNCHANGED << csvFile, pos, dbQueue, trips, loadResult >>
    /\ UNCHANGED notLoaderVars

\* insertBatch(batch, n): BEGIN TRANSACTION, one stmt.run per row and COMMIT
\* are queued on the database
insertBatch(batch) == dbQueue' = Append(dbQueue, batch)

(* the read stream's 'data' event; insertBatch is not awaited *)
OnData ==
    /\ lpc = "reading"
    /\ pos < Len(csvFile.rows)
    /\ pos' = pos + 1
    /\ recordCount' = recordCount + 1
    /\ LET pushed == Append(records, csvFile.rows[pos + 1])
       IN  IF Len(pushed) >= batchSize
           THEN /\ insertBatch(SubSeq(pushed, 1, batchSize))
                /\ records' = SubSeq(pushed, batchSize + 1, Len(pushed))
                /\ batchCount' = batchCount + 1
           ELSE /\ records' = pushed
                /\ UNCHANGED << dbQueue, batchCount >>
    /\ UNCHANGED << csvFile, lpc, trips, loadResult >>
    /\ UNCHANGED notLoaderVars

(* the 'end' event, up to its await *)
OnEnd ==
    /\ lpc = "reading"
    /\ pos = Len(csvFile.rows)
    /\ lpc' = "ended"
    /\ IF Len(records) > 0
       THEN insertBatch(records) /\ batchCount' = batchCount + 1
       ELSE UNCHANGED << dbQueue, batchCount >>
    /\ UNCHANGED << csvFile, pos, records, recordCount, trips, loadResult >>
    /\ UNCHANGED notLoaderVars

(* the database runs the oldest queued batch and commits it *)
CommitBatch ==
    /\ lpc \in { "reading", "ended" }
    /\ dbQueue # <<>>
    /\ \A k \in 1..Len(Head(dbQueue)) : Insertable(Head(dbQueue)[k])
    /\ trips' = trips \o [k \in 1..Len(Head(dbQueue)) |->
                             BindRow(Head(dbQueue)[k])]
    /\ dbQueue' = Tail(dbQueue)
    /\ UNCHANGED << csvFile, lpc, pos, records, recordCount, batchCount,
                    loadResult >>
    /\ UNCHANGED notLoaderVars

(* an INSERT of the oldest queued batch is refused.  stmt.run is given no   *)
(* callback, so the statement emits 'error'; nothing listens, the error is  *)
(* thrown and the process ends with the batch's transaction open: its rows  *)
(* are rolled back, the batches committed before stay.                      *)
StatementError ==
    /\ lpc \in { "reading", "ended" }
    /\ dbQueue # <<>>
    /\ \E k \in 1..Len(Head(dbQueue)) : ~Insertable(Head(dbQueue)[k])
    /\ lpc' = "crashed"
    /\ dbQueue' = <<>>
    /\ UNCHANGED << csvFile, pos, records, recordCount, batchCount, trips,
                    loadResult >>
    /\ UNCHANGED notLoaderVars

(* the promise resolves once the queued batches are done;                   *)
(* verifyDataIntegrity only reads, then loadData returns recordCount        *)
LoadDataReturn ==
    /\ lpc = "ended"
    /\ dbQueue = <<>>
    /\ lpc' = "returned"
    /\ loadResult' = recordCount
    /\ UNCHANGED << csvFile, pos, records, recordCount, batchCount, dbQueue,
                    trips >>
    /\ UNCHANGED notLoaderVars

NextLoad ==
    \/ LoadData
    \/ OnData
    \/ OnEnd
    \/ CommitBatch
    \/ StatementError
    \/ LoadDataReturn

\* loadData on cleaned files of up to MaxRows rows
SpecLoad == InitLoad /\ [][NextLoad]_vars

-----------------------------------------------------------------------------
(* The dashboard page and the two endpoints of server.js it calls.  The     *)
(* lists hold trips by their id, as the arrays of the page hold references  *)
(* to trip objects; TripData gives the fields.  pickupTime is in minutes    *)
(* (the texts compare as the minutes do), fareAmount in cents, tripDistance *)
(* in tenths of a mile.                                                     *)

itemsPerPage == 20

\* server.js: limit = 20 when the request names none
limit == 20

MaxOps == 2

MaxInflight == 2

Day(n) == n * 1440

TripOf(id, minute, passengers, distance, duration, fare, payment) ==
    [id |-> id, pickupTime |-> minute, passengerCount |-> passengers,
     tripDistance |-> distance, tripDuration |-> duration,
     fareAmount |-> fare, paymentType |-> payment]

\* the objects of const sampleTrips of the page (2024-01-15 is day 15)
SampleData ==
    << TripOf(1, Day(15) + 510, 2, 42, 45, 1850, "Credit card"),
       TripOf(2, Day(15) + 765, 1, 18, 20, 825, "Cash"),
       TripOf(3, Day(15) + 1040, 4, 65, 50, 2800, "Credit card"),
       TripOf(4, Day(15) + 1170, 2, 31, 25, 1475, "Credit card"),
       TripOf(5, Day(15) + 1320, 1, 58, 30, 2450, "Credit card") >>

\* const sampleTrips: the ids 1 to 5
sampleTrips == [k \in 1..Len(SampleData) |-> k]

\* the k-th row of the server's table: equal fares, distances and durations
\* occur among the rows
TableRow(k) ==
    TripOf(100 + k, Day(16) + 600 - 10 * k, 1 + (k % 3), 10 + 5 * (k % 4),
           10 + (k % 5), 500 + 250 * (k % 4),
           IF k % 2 = 0 THEN "Cash" ELSE "Credit card")

\* a table of n trips, newest first
TableOf(n) == [k \in 1..n |-> 100 + k]

\* the trip objects there are, by id
Objects ==
    [id \in (1..Len(SampleData)) \cup (101..(101 + limit)) |->
        IF id <= Len(SampleData) THEN SampleData[id] ELSE TableRow(id - 100)]

\* the fields of the trip with this id
TripData(id) == Objects[id]

\* the table holds one trip more than a page of the response
ServerTables == { TableOf(limit + 1) }

\* the columns of table trips of server.js a query can be ordered by
TableColumns ==
    { "id", "pickup_time", "dropoff_time", "passenger_count", "trip_distance",
      "trip_duration", "fare_amount", "tip_amount", "payment_type",
      "pickup_lat", "pickup_lon", "dropoff_lat", "dropoff_lon", "created_at" }

\* the options of the sortBy select: the fields sortTripsByField knows
SortOptions == { "pickupTime", "fare", "distance", "duration" }

\* what the user may have typed into the filter inputs when applyFilters
\* reads them
Forms ==
    { EmptyForm,
      [EmptyForm EXCEPT !.minFare = Typed(1500)],
      [EmptyForm EXCEPT !.passengerCount = Typed(2),
                        !.maxDistance = Typed(20)],
      [EmptyForm EXCEPT !.startDate = Typed(Day(15)),
                        !.endDate = Typed(Day(16))] }

\* what the user may have typed into the search box
SearchTerms == { "", "cash" }

\* Math.round(a / b) for a >= 0, b > 0
RoundDiv(a, b) == (2 * a + b) \div (2 * b)

\* trips.reduce((sum, trip) => sum + trip[f], 0) over the first k trips
RECURSIVE SumUpTo(_, _, _)
SumUpTo(s, f, k) ==
    IF k = 0 THEN 0 ELSE SumUpTo(s, f, k - 1) + TripData(s[k])[f]

SumField(s, f) == SumUpTo(s, f, Len(s))

\* what updateStatsDisplay puts on the cards: the count, avgFare.toFixed(2)
\* in cents, Math.round(avgDuration), totalRevenue.toFixed(2) in cents
updateStatsDisplay(stats) ==
    [totalTrips |-> stats.totalTrips,
     avgFare |-> RoundDiv(stats.avgFare.n, stats.avgFare.d),
     avgDuration |-> RoundDiv(stats.avgDuration.n, stats.avgDuration.d),
     totalRevenue |-> stats.totalRevenue]

\* updateStats, the local fallback: the statistics of the list
LocalStats(list) ==
    IF Len(list) = 0
    THEN [totalTrips |-> 0, avgFare |-> Int2Rat(0), avgDuration |-> Int2Rat(0),
          totalRevenue |-> 0]
    ELSE LET totalRevenue == SumField(list, "fareAmount")
         IN  [totalTrips |-> Len(list),
              avgFare |-> Rat(totalRevenue, Len(list)),
              avgDuration |-> Rat(SumField(list, "tripDuration"), Len(list)),
              totalRevenue |-> totalRevenue]

\* GET /api/trips/stats without query parameters: the statistics of the
\* whole table, the averages rounded to two decimals
ApiStats ==
    LET n == Len(serverTrips)
        totalRevenue == SumField(serverTrips, "fareAmount")
    IN  IF n = 0
        THEN [totalTrips |-> 0, avgFare |-> Int2Rat(0),
              avgDuration |-> Int2Rat(0), totalRevenue |-> 0]
        ELSE [totalTrips |-> n,
              avgFare |-> Int2Rat(RoundDiv(totalRevenue, n)),
              avgDuration |->
                  Rat(RoundDiv(100 * SumField(serverTrips, "tripDuration"), n), 100),
              totalRevenue |-> totalRevenue]

\* the WHERE clause of GET /api/trips
ServerMatches(trip, q) ==
    /\ q.startDate.blank \/ (trip.pickupTime \div 1440) * 1440 >= q.startDate.v
    /\ q.endDate.blank \/ (trip.pickupTime \div 1440) * 1440 <= q.endDate.v
    /\ q.passengerCount.blank \/ trip.passengerCount = q.passengerCount.v
    /\ q.minFare.blank \/ trip.fareAmount >= q.minFare.v
    /\ q.maxFare.blank \/ trip.fareAmount <= q.maxFare.v
    /\ q.minDistance.blank \/ trip.tripDistance >= q.minDistance.v
    /\ q.maxDistance.blank \/ trip.tripDistance <= q.maxDistance.v

\* GET /api/trips: ORDER BY a name that is no column is an SQL error (500);
\* the default order is pickup_time DESC, the order serverTrips is kept in
ApiTrips(q, sort) ==
    IF sort \notin TableColumns
    THEN [ok |-> FALSE, trips |-> <<>>]
    ELSE LET rows == SelectSeq(serverTrips,
                                   LAMBDA t : ServerMatches(TripData(t), q))
         IN  [ok |-> TRUE,
              trips |-> SubSeq(rows, 1, IF Len(rows) < limit THEN Len(rows)
                                        ELSE limit)]

\* applyFilters, the local fallback; a pickupTime text is longer than a date
\* text, so it is <= endDate only on the days before
LocalFilter(list, q) ==
    SelectSeq(list, LAMBDA id : LET trip == TripData(id) IN
        /\ q.startDate.blank \/ trip.pickupTime >= q.startDate.v
        /\ q.endDate.blank \/ trip.pickupTime < q.endDate.v
        /\ q.passengerCount.blank \/ trip.passengerCount = q.passengerCount.v
        /\ q.minFare.blank \/ trip.fareAmount >= q.minFare.v
        /\ q.maxFare.blank \/ trip.fareAmount <= q.maxFare.v
        /\ q.minDistance.blank \/ trip.tripDistance >= q.minDistance.v
        /\ q.maxDistance.blank \/ trip.tripDistance <= q.maxDistance.v)

\* searchableText.includes(searchTerm) for the terms of SearchTerms
Includes(trip, searchTerm) ==
    searchTerm = "cash" /\ trip.paymentType = "Cash"

SortKey(id, field) ==
    LET trip == TripData(id)
    IN  CASE field = "pickupTime" -> trip.pickupTime
          [] field = "fare" -> trip.fareAmount
          [] field = "distance" -> trip.tripDistance
          [] field = "duration" -> trip.tripDuration

\* mutant of shouldSwap: equal neighbours are swapped too
shouldSwapOrEqual(a, b, field, direction) ==
    IF field \notin SortOptions THEN FALSE
    ELSE IF direction = "asc" THEN SortKey(a, field) >= SortKey(b, field)
    ELSE SortKey(a, field) <= SortKey(b, field)

shouldSwap(a, b, field, direction) ==
    IF field \notin SortOptions THEN FALSE
    ELSE IF direction = "asc" THEN SortKey(a, field) > SortKey(b, field)
    ELSE SortKey(a, field) < SortKey(b, field)

\* the inner loop of the bubble sort, j counted from 0
RECURSIVE InnerLoop(_, _, _, _, _)
InnerLoop(sortedTrips, n, j, field, direction) ==
    IF j >= Len(sortedTrips) - n - 1 THEN sortedTrips
    ELSE LET a == sortedTrips[j + 1]
             b == sortedTrips[j + 2]
             next == IF shouldSwap(a, b, field, direction)
                     THEN [sortedTrips EXCEPT ![j + 1] = b, ![j + 2] = a]
                     ELSE sortedTrips
         IN  InnerLoop(next, n, j + 1, field, direction)

\* the outer loop, i (here n) counted from 0
RECURSIVE OuterLoop(_, _, _, _)
OuterLoop(sortedTrips, n, field, direction) ==
    IF n >= Len(sortedTrips) - 1 THEN sortedTrips
    ELSE OuterLoop(InnerLoop(sortedTrips, n, 0, field, direction), n + 1,
                   field, direction)

\* the list sortTripsByField stores in dashboardState.filteredTrips
sortTripsByField(list, field, direction) == OuterLoop(list, 0, field, direction)

InitDash ==
    /\ inputFile = <<>>
    /\ Constructed
    /\ csvFile = NoFile
    /\ LoaderReady
    /\ serverTrips \in ServerTables
    /\ dashboardState
    /\ NotStarted
    /\ NewAPI

\* a fetch that waits for its answer
Fetch(url, op, q, sort, rest) ==
    [url |-> url, op |-> op, q |-> q, sort |-> sort, rest |-> rest]

\* renderDashboard() -> updateMetrics() -> updateStats(): GET /trips/stats
RenderDashboard(op) ==
    inflight' = Append(inflight, Fetch("stats", op, EmptyForm, "", 0))

\* a user operation starts
UserOp(op) ==
    /\ lastOp # "none"
    /\ ops < MaxOps
    /\ Len(inflight) < MaxInflight
    /\ ops' = ops + 1
    /\ lastOp' = op
    /\ completed' = "none"

(* DOMContentLoaded: loadSampleData() up to its fetch of /trips *)
DomContentLoaded ==
    /\ lastOp = "none"
    /\ lastOp' = "loadSampleData"
    /\ inflight' = Append(inflight, Fetch("trips", "loadSampleData", EmptyForm,
                                          "pickup_time", 0))
    /\ UNCHANGED << serverTrips, allTrips, filteredTrips, currentPage,
                    currentSort, sortDirection, shownStats, ops >>
    /\ completed' = "none"
    /\ UNCHANGED notDashVars

\* loadSampleData() has returned
Loaded == \A k \in 1..Len(inflight) : inflight[k].op # "loadSampleData"

(* the 'input' event of the search box: handleSearch, filterTripsBySearch;  *)
(* setupEventListeners() runs after loadSampleData() has returned           *)
FilterTripsBySearch ==
    \E searchTerm \in SearchTerms :
        /\ UserOp("filterTripsBySearch")
        /\ Loaded
        /\ filteredTrips' =
               IF searchTerm = "" THEN allTrips
               ELSE SelectSeq(allTrips,
                              LAMBDA id : Includes(TripData(id), searchTerm))
        /\ currentPage' = 1
        /\ RenderDashboard("filterTripsBySearch")
        /\ UNCHANGED << serverTrips, allTrips, currentSort, sortDirection,
                        shownStats >>
        /\ UNCHANGED notDashVars

(* applyFilters() up to its fetch of /trips?params *)
ApplyFilters ==
    \E typed \in Forms :
        /\ UserOp("applyFilters")
        /\ inflight' = Append(inflight, Fetch("trips", "applyFilters", typed,
                                              currentSort, 0))
        /\ UNCHANGED << serverTrips, allTrips, filteredTrips, currentPage,
                        currentSort, sortDirection, shownStats >>
        /\ UNCHANGED notDashVars

(* resetFilters() up to the fetch of its first updateStats() *)
ResetFilters ==
    /\ UserOp("resetFilters")
    /\ filteredTrips' = allTrips
    /\ currentPage' = 1
    /\ inflight' = Append(inflight, Fetch("stats", "resetFilters", EmptyForm,
                                          "", 1))
    /\ UNCHANGED << serverTrips, allTrips, currentSort, sortDirection,
                    shownStats >>
    /\ UNCHANGED notDashVars

(* sortTable(): currentSort is assigned before it is compared with sortBy *)
SortTable ==
    \E sortBy \in SortOptions :
        /\ UserOp("sortTable")
        /\ currentSort' = sortBy
        /\ sortDirection' =
               IF currentSort' = sortBy
               THEN (IF sortDirection = "asc" THEN "desc" ELSE "asc")
               ELSE sortDirection
        /\ filteredTrips' =
               sortTripsByField(filteredTrips, sortBy, sortDirection')
        /\ RenderDashboard("sortTable")
        /\ UNCHANGED << serverTrips, allTrips, currentPage, shownStats >>
        /\ UNCHANGED notDashVars

\* mutant of NewPage: the last page is not checked
NewPageNoUpperBound(direction) ==
    LET newPage == currentPage + direction
    IN  IF newPage >= 1 THEN newPage ELSE currentPage

\* changePage: the page after the call
NewPage(direction) ==
    LET totalPages ==
            (Len(filteredTrips) + itemsPerPage - 1) \div itemsPerPage
        newPage == currentPage + direction
    IN  IF newPage >= 1 /\ newPage <= totalPages THEN newPage
        ELSE currentPage

(* changePage(direction); renderDashboard() runs only when the page moved *)
ChangePage ==
    \E direction \in { -1, 1 } :
        /\ UserOp("changePage")
        /\ currentPage' = NewPage(direction)
        /\ IF currentPage' # currentPage THEN RenderDashboard("changePage")
           ELSE UNCHANGED inflight
        /\ UNCHANGED << serverTrips, allTrips, filteredTrips, currentSort,
                        sortDirection, shownStats >>
        /\ UNCHANGED notDashVars

\* the oldest-first list of fetches without the k-th
Without(s, k) == SubSeq(s, 1, k - 1) \o SubSeq(s, k + 1, Len(s))

(* the fetch of /trips of loadSampleData is answered, or fails; then        *)
(* updateStats() is awaited, and renderDashboard() after it                 *)
LoadAnswered ==
    \E k \in 1..Len(inflight), reachable \in BOOLEAN :
        LET f == inflight[k]
            response == ApiTrips(f.q, f.sort)
            loaded == IF reachable /\ response.ok THEN response.trips
                      ELSE sampleTrips
        IN  /\ f.url = "trips"
            /\ f.op = "loadSampleData"
            /\ allTrips' = loaded
            /\ filteredTrips' = loaded
            /\ inflight' = Append(Without(inflight, k),
                                  Fetch("stats", f.op, EmptyForm, "", 1))
            /\ lastOp' = f.op
            /\ UNCHANGED << serverTrips, currentPage, currentSort,
                            sortDirection, shownStats, ops >>
            /\ completed' = "none"
            /\ UNCHANGED notDashVars

(* the fetch of /trips?params of applyFilters is answered, or fails and the *)
(* catch filters allTrips; then renderDashboard() is awaited                *)
FiltersAnswered ==
    \E k \in 1..Len(inflight), reachable \in BOOLEAN :
        LET f == inflight[k]
            response == ApiTrips(f.q, f.sort)
        IN  /\ f.url = "trips"
            /\ f.op = "applyFilters"
            /\ filteredTrips' = IF reachable /\ response.ok THEN response.trips
                                ELSE LocalFilter(allTrips, f.q)
            /\ currentPage' = 1
            /\ inflight' = Append(Without(inflight, k),
                                  Fetch("stats", f.op, EmptyForm, "", 0))
            /\ lastOp' = f.op
            /\ UNCHANGED << serverTrips, allTrips, currentSort, sortDirection,
                            shownStats, ops >>
            /\ completed' = "none"
            /\ UNCHANGED notDashVars

(* the fetch of /trips/stats of updateStats() is answered and shown, or     *)
(* fails and the statistics of filteredTrips are shown; the operation goes  *)
(* on to its next updateStats() or is complete                              *)
StatsAnswered ==
    \E k \in 1..Len(inflight), reachable \in BOOLEAN :
        LET f == inflight[k]
        IN  /\ f.url = "stats"
            /\ shownStats' = updateStatsDisplay(IF reachable THEN ApiStats
                                                ELSE LocalStats(filteredTrips))
            /\ inflight' = IF f.rest > 0
                           THEN Append(Without(inflight, k),
                                       Fetch("stats", f.op, EmptyForm, "",
                                             f.rest - 1))
                           ELSE Without(inflight, k)
            /\ completed' = IF f.rest > 0 THEN "none" ELSE f.op
            /\ lastOp' = f.op
            /\ UNCHANGED << serverTrips, allTrips, filteredTrips, currentPage,
                            currentSort, sortDirection, ops >>
            /\ UNCHANGED notDashVars

NextDash ==
    \/ DomContentLoaded
    \/ FilterTripsBySearch
    \/ ApplyFilters
    \/ ResetFilters
    \/ SortTable
    \/ ChangePage
    \/ LoadAnswered
    \/ FiltersAnswered
    \/ StatsAnswered

\* the page over a table of limit + 1 trips, up to MaxOps operations
SpecDash == InitDash /\ [][NextDash]_vars

-----------------------------------------------------------------------------
(* NYCDataProcessor.processData: find train.zip, extract the CSV, clean it, *)
(* load the cleaned file; any throw goes to the catch and process.exit(1).  *)

\* possiblePaths of findTrainZip, in the order they are tried
possiblePaths == 1..3

\* findTrainZip(): the first path that exists, or null (0)
findTrainZip == IF zipAt \in possiblePaths THEN zipAt ELSE 0

\* mutant of AfterFind: the null check of step 1 is missing
AfterFindUnchecked(zipFile) == "found"

\* if (!zipFile) throw new Error('train.zip file not found...')
AfterFind(zipFile) == IF zipFile = 0 THEN "catch" ELSE "found"

InitProc ==
    /\ inputFile \in { <<>> } \cup { << r >> : r \in BatchRows }
    /\ Constructed
    /\ csvFile = NoFile
    /\ LoaderReady
    /\ serverTrips = <<>>
    /\ dashboardState
    /\ NewAPI
    /\ zipAt \in { 0 } \cup possiblePaths
    /\ zipEntries \in { "csv", "nocsv", "corrupt" }
    /\ ppc = "idle"
    /\ stepsRun = <<>>
    /\ successPrinted = FALSE
    /\ exitCode = -1

(* Step 1: const zipFile = await this.findTrainZip() *)
FindTrainZip ==
    /\ ppc = "idle"
    /\ stepsRun' = Append(stepsRun, "findTrainZip")
    /\ ppc' = AfterFind(findTrainZip)
    /\ UNCHANGED << zipAt, zipEntries, successPrinted, exitCode >>
    /\ UNCHANGED cleanerVars
    /\ UNCHANGED notProcVars

(* Step 2: extractZipFile(zipFile) throws when the archive cannot be read   *)
(* or holds no .csv entry                                                   *)
ExtractZipFile ==
    /\ ppc = "found"
    /\ stepsRun' = Append(stepsRun, "extractZipFile")
    /\ ppc' = IF zipAt \in possiblePaths /\ zipEntries = "csv"
              THEN "extracted" ELSE "catch"
    /\ UNCHANGED << zipAt, zipEntries, successPrinted, exitCode >>
    /\ UNCHANGED cleanerVars
    /\ UNCHANGED notProcVars

(* Step 3: this.cleanData(csvFile): new DataCleaner(), and its              *)
(* cleanData(csvFile, outputFile) is called and awaited                     *)
CleanData ==
    /\ ppc = "extracted"
    /\ stepsRun' = Append(stepsRun, "cleanData")
    /\ ppc' = "cleaning"
    /\ pc = "idle"
    /\ pc' = "read"
    /\ run' = run + 1
    /\ error' = "none"
    /\ rawData' = <<>>
    /\ outcomes' = <<>>
    /\ stagesRun' = <<>>
    /\ excludedAtStart' = Len(excludedRecords)
    /\ UNCHANGED << inputFile, i, stage, processedCount, excludedCount,
                    processedRecords, excludedRecords, written, reports,
                    reportFiles >>
    /\ UNCHANGED << zipAt, zipEntries, successPrinted, exitCode >>
    /\ UNCHANGED notProcVars

(* the await of step 3 settles.  cleaner.cleanData rejects on every file    *)
(* (generateSummaryReport throws), so step 4, loadIntoDatabase, and the     *)
(* success message after it are written here for the case it returned, a    *)
(* case no run reaches                                                      *)
CleanDataSettled ==
    /\ ppc = "cleaning"
    /\ pc \in { "failed", "returned" }
    /\ IF pc = "returned"
       THEN /\ stepsRun' = Append(stepsRun, "loadIntoDatabase")
            /\ ppc' = "loading"
       ELSE /\ stepsRun' = stepsRun
            /\ ppc' = "catch"
    /\ UNCHANGED << zipAt, zipEntries, successPrinted, exitCode >>
    /\ UNCHANGED cleanerVars
    /\ UNCHANGED notProcVars

(* catch (error): console.error(...); process.exit(1) *)
ProcessDataCatch ==
    /\ ppc = "catch"
    /\ ppc' = "exited"
    /\ exitCode' = 1
    /\ UNCHANGED << zipAt, zipEntries, stepsRun, successPrinted >>
    /\ UNCHANGED cleanerVars
    /\ UNCHANGED notProcVars

NextProc ==
    \/ FindTrainZip
    \/ ExtractZipFile
    \/ CleanData
    \/ ReadRow
    \/ ReadEnd
    \/ ReadError
    \/ HandleMissingValues
    \/ ValidateTimestamps
    \/ ValidateCoordinates
    \/ ValidateTripMetrics
    \/ ValidateFareData
    \/ CalculateDerivedFeatures
    \/ IsOutlier
    \/ WriteCleanedData
    \/ GenerateSummaryReport
    \/ CleanDataSettled
    \/ ProcessDataCatch

\* one run of the script; every await settles and the script goes on
SpecProc == InitProc /\ [][NextProc]_vars /\ WF_vars(NextProc)

-----------------------------------------------------------------------------
(* The API client of the frontend: request() with its cache, clearCache()   *)

\* this.cacheTimeout, in ms
cacheTimeout == 5 * 60 * 1000

MaxTicks == 3

MaxPending == 2

\* the clock is read every half timeout
Tick == cacheTimeout \div 2

InitApi ==
    /\ inputFile = <<>>
    /\ Constructed
    /\ csvFile = NoFile
    /\ LoaderReady
    /\ serverTrips = <<>>
    /\ dashboardState
    /\ NotStarted
    /\ NewAPI

\* Date.now() - cached.timestamp < this.cacheTimeout
Fresh(entry) == now - entry.timestamp < cacheTimeout

Did(kind, key, data) == [kind |-> kind, key |-> key, data |-> data]

(* time passes *)
ClockTick ==
    /\ now + Tick <= MaxTicks * Tick
    /\ now' = now + Tick
    /\ lastRequest' = Did("tick", "", 0)
    /\ UNCHANGED << cache, pending, sentSinceClear >>
    /\ UNCHANGED notApiVars

(* request(endpoint, options) finds a fresh entry and returns its data *)
RequestCached ==
    \E cacheKey \in Keys :
        /\ cache[cacheKey].present
        /\ Fresh(cache[cacheKey])
        /\ lastRequest' = Did("cached", cacheKey, cache[cacheKey].data)
        /\ UNCHANGED << cache, now, pending, sentSinceClear >>
        /\ UNCHANGED notApiVars

(* request(endpoint, options) finds no entry, or deletes the entry that is  *)
(* not fresh, and calls fetch                                               *)
RequestFetch ==
    \E cacheKey \in Keys :
        /\ Len(pending) < MaxPending
        /\ ~(cache[cacheKey].present /\ Fresh(cache[cacheKey]))
        /\ cache' = [cache EXCEPT ![cacheKey] = NoEntry]
        /\ pending' = Append(pending, cacheKey)
        /\ sentSinceClear' = sentSinceClear \cup { cacheKey }
        /\ lastRequest' = Did("fetch", cacheKey, 0)
        /\ UNCHANGED now
        /\ UNCHANGED notApiVars

(* the fetch is answered with response.ok: the data is stored and returned; *)
(* the data is what the server held at that time                            *)
ResponseOk ==
    \E k \in 1..Len(pending) :
        /\ cache' = [cache EXCEPT ![pending[k]] =
                        [present |-> TRUE, data |-> now, timestamp |-> now]]
        /\ pending' = Without(pending, k)
        /\ lastRequest' = Did("stored", pending[k], now)
        /\ UNCHANGED << now, sentSinceClear >>
        /\ UNCHANGED notApiVars

(* the fetch fails, or the response is not ok: request() throws *)
ResponseFailed ==
    \E k \in 1..Len(pending) :
        /\ pending' = Without(pending, k)
        /\ lastRequest' = Did("failed", pending[k], 0)
        /\ UNCHANGED << cache, now, sentSinceClear >>
        /\ UNCHANGED notApiVars

(* clearCache(): this.cache.clear() *)
ClearCache ==
    /\ cache' = [k \in Keys |-> NoEntry]
    /\ sentSinceClear' = {}
    /\ lastRequest' = Did("cleared", "", 0)
    /\ UNCHANGED << now, pending >>
    /\ UNCHANGED notApiVars

NextApi ==
    \/ ClockTick
    \/ RequestCached
    \/ RequestFetch
    \/ ResponseOk
    \/ ResponseFailed
    \/ ClearCache

\* requests for two keys over MaxTicks half timeouts
SpecApi == InitApi /\ [][NextApi]_vars

-----------------------------------------------------------------------------
(* Properties *)

\* the exclusion entries logged by the current cleanData call
RunEntries ==
    SubSeq(excludedRecords, excludedAtStart + 1, Len(excludedRecords))

\* the entries of the current call that carry input index idx
EntriesOf(idx) ==
    { k \in 1..Len(RunEntries) : RunEntries[k].index = idx }

\* the loop of the current cleanData call has ended
LoopDone == pc = "report" \/ (pc = "failed" /\ error = "ReferenceError")

\* the records of the current call that are done, as positions of rawData
Done == 1..Len(outcomes)

Between(v, lo, hi) == ~IsNaN(v) /\ ~Lt(v, Int2Rat(lo)) /\ ~Gt(v, Int2Rat(hi))

IsInteger(v) == ~IsNaN(v) /\ v.d = 1

\* C1: when the loop of a cleanData call has ended, processedCount +
\* excludedCount is the number of raw input records, also when records threw.
C1_PartitionComplete ==
    LoopDone =>
        /\ processedCount + excludedCount = Len(rawData)
        /\ Len(rawData) = Len(inputFile)

C1_Witness ==
    /\ pc = "report"
    /\ processedCount >= 1
    /\ \E k \in Done : outcomes[k].verdict = "processing_error"

\* C2: a cleanData call whose input was read terminates normally (table
\* written, one report written, result returned): it fails only when the
\* read stream failed.
C2_ReadRunTerminatesNormally ==
    pc = "failed" => error = "stream_error"

StageOrder ==
    << "handleMissingValues", "validateTimestamps", "validateCoordinates",
       "validateTripMetrics", "validateFareData", "calculateDerivedFeatures",
       "isOutlier" >>

IsPrefix(p, q) == Len(p) <= Len(q) /\ p = SubSeq(q, 1, Len(p))

\* the reason code of the stage a rejection comes from
ReasonOfStage(s) ==
    CASE s = "handleMissingValues" -> "missing_critical_data"
      [] s = "validateTimestamps" -> "invalid_timestamps"
      [] s = "validateCoordinates" -> "invalid_coordinates"
      [] s = "validateTripMetrics" -> "invalid_trip_metrics"
      [] s = "validateFareData" -> "invalid_fare_data"
      [] s = "isOutlier" -> "outlier"
      [] OTHER -> "none"

\* a critical field is absent or empty, and every critical cell is text
MissingCritical(row) ==
    /\ \E f \in CriticalSet : row[f] \in { Undef, EmptyStr }
    /\ \A f \in CriticalSet : row[f].t # "num"

\* C3: the stages run in the fixed order and stop at the first that fails;
\* a rejected record has exactly one exclusion entry, with the reason of the
\* stage that stopped it; a record with a missing critical field is logged as
\* missing_critical_data whatever else is wrong with it.
C3_FirstFailingStageWins ==
    /\ IsPrefix(stagesRun, StageOrder)
    /\ \A k \in Done :
          LET o == outcomes[k]
              last == o.stages[Len(o.stages)]
          IN  /\ IsPrefix(o.stages, StageOrder)
              /\ o.verdict = "accepted" =>
                     o.stages = StageOrder /\ EntriesOf(k - 1) = {}
              /\ o.verdict # "accepted" =>
                     /\ Cardinality(EntriesOf(k - 1)) = 1
                     /\ \A e \in EntriesOf(k - 1) :
                            RunEntries[e].reason = o.verdict
              /\ o.verdict \notin { "accepted", "processing_error" } =>
                     o.verdict = ReasonOfStage(last)
              /\ MissingCritical(inputFile[k]) =>
                     /\ o.verdict = "missing_critical_data"
                     /\ o.stages = << "handleMissingValues" >>

C3_Witness ==
    \E k \in Done :
        /\ outcomes[k].verdict = "missing_critical_data"
        /\ MissingCritical(inputFile[k])
        /\ inputFile[k]["pickup_latitude"] = NumStr(415, 10)
        /\ Cardinality(EntriesOf(k - 1)) = 1

InBox(rec) ==
    /\ ~IsNaN(rec["pickup_latitude"].v)
    /\ ~IsNaN(rec["dropoff_latitude"].v)
    /\ ~IsNaN(rec["pickup_longitude"].v)
    /\ ~IsNaN(rec["dropoff_longitude"].v)
    /\ ~OutsideBounds(rec)

InBounds(rec) ==
    /\ IsInteger(rec["passenger_count"].v)
    /\ Between(rec["passenger_count"].v, 1, 6)
    /\ Between(rec["trip_distance"].v, 0, 500)
    /\ Between(rec["trip_duration"].v, 30, 86400)
    /\ Between(rec["fare_amount"].v, 0, 1000)
    /\ Between(rec["tip_amount"].v, 0, 500)
    /\ Between(rec["tolls_amount"].v, 0, 100)
    /\ Between(rec["total_amount"].v, 0, 2000)
    /\ IsInteger(rec["payment_type"].v)
    /\ Between(rec["payment_type"].v, 1, 6)
    /\ InBox(rec)

\* C4: every field of every accepted record lies in its asserted range, also
\* when non-critical fields of the raw record are absent, empty or not numbers.
C4_AcceptedInBounds ==
    \A k \in 1..Len(processedRecords) : InBounds(processedRecords[k].rec)

\* C5: two cleanData calls on the same input write the same accepted rows and
\* build the same report counts, on a fresh instance or on the same one.
C5_SameInputSameResult ==
    /\ \A a, b \in 1..Len(written) : written[a] = written[b]
    /\ \A a, b \in 1..Len(reports) : reports[a] = reports[b]

\* C6: a record that throws gets exactly one exclusion entry (its input index,
\* processing_error), counts as one exclusion, and the batch goes on: every
\* record gets the outcome it has on its own, and all records are processed
\* when the loop ends.
C6_ThrowIsIsolated ==
    /\ \A k \in Done :
          /\ outcomes[k].verdict = cleanRecord(inputFile[k]).verdict
          /\ outcomes[k].verdict = "processing_error" =>
                 /\ Cardinality(EntriesOf(k - 1)) = 1
                 /\ \A e \in EntriesOf(k - 1) :
                        RunEntries[e].reason = "processing_error"
    /\ pc = "loop" =>
           /\ Len(outcomes) = i
           /\ excludedCount =
                  Cardinality({ k \in Done : outcomes[k].verdict # "accepted" })
           /\ Len(RunEntries) = excludedCount
    /\ LoopDone => Len(outcomes) = Len(inputFile)

C6_Witness ==
    /\ pc = "report"
    /\ Len(outcomes) >= 2
    /\ outcomes[1].verdict = "processing_error"
    /\ outcomes[2].verdict = "accepted"

\* C7: accepted records of one batch keep the order of their input rows, in
\* processedRecords and in the rows of the written table.
C7_OrderPreserved ==
    /\ \A a, b \in 1..Len(processedRecords) :
          ( /\ a < b
            /\ processedRecords[a].ref[1] = processedRecords[b].ref[1] )
          => processedRecords[a].ref[2] < processedRecords[b].ref[2]
    /\ pc = "report" =>
          LET table == written[Len(written)]
          IN  /\ Len(table) = Len(processedRecords)
              /\ \A k \in 1..Len(table) :
                     table[k] = CsvRow(processedRecords[k].rec)

C7_Witness ==
    /\ pc = "report"
    /\ run = 1
    /\ Len(processedRecords) >= 2
    /\ processedRecords[1].rec # processedRecords[2].rec

\* the record has passed calculateDerivedFeatures
Derived(k) ==
    \/ k \in Done /\ Len(outcomes[k].stages) = Len(StageOrder)
    \/ pc = "loop" /\ k = i + 1 /\ k <= Len(rawData) /\ stage = "isOutlier"

\* max(0, trip_duration / 60 - (trip_distance / 12) * 60)
IdleFormula(distance, duration) ==
    Max0(RSub(RDiv(duration, Int2Rat(60)),
              RMul(RDiv(distance, Int2Rat(12)), Int2Rat(60))))

\* C8: every validated record, trip_distance 0 included, gets
\* idle_time_minutes = max(0, trip_duration/60 - (trip_distance/12)*60).
C8_IdleTimeFormula ==
    \A k \in 1..Len(rawData) :
        (Derived(k) /\ ~IsNaN(rawData[k]["trip_distance"].v)) =>
            rawData[k]["idle_time_minutes"].v =
                IdleFormula(rawData[k]["trip_distance"].v,
                            rawData[k]["trip_duration"].v)

\* the first and the last second of the calendar years 2015 to 2020
WindowStart == 0
WindowEnd == 2192 * 86400 - 1

\* both timestamps are date texts, dropoff not before pickup, duration in range
TimesWellFormed(row) ==
    /\ MomentValid(row["pickup_datetime"])
    /\ MomentValid(row["dropoff_datetime"])
    /\ row["dropoff_datetime"].v.n - row["pickup_datetime"].v.n >= 30
    /\ row["dropoff_datetime"].v.n - row["pickup_datetime"].v.n <= 86400

\* C9: a record with well-formed times passes timestamp validation exactly
\* when its pickup lies in the years 2015 to 2020, up to the last second of
\* 2020-12-31; otherwise it is rejected with invalid_timestamps.
C9_PickupWindow ==
    \A k \in Done :
        (TimesWellFormed(inputFile[k]) /\ Len(outcomes[k].stages) >= 2) =>
            LET pickup == inputFile[k]["pickup_datetime"].v.n
            IN  IF pickup >= WindowStart /\ pickup <= WindowEnd
                THEN Len(outcomes[k].stages) > 2
                ELSE outcomes[k].verdict = "invalid_timestamps"

\* trip_distance / (trip_duration / 3600) > 80, before the cap at 100
UnclampedSpeedOver80(rec) ==
    LET m == rec["trip_distance"].v
        t == rec["trip_duration"].v
    IN  /\ ~IsNaN(m)
        /\ ~IsNaN(t)
        /\ m.n * 3600 > 80 * t.n * m.d

\* C10: a record that passed the five validation stages is rejected as
\* outlier exactly when trip_speed_mph > 80 or fare_per_mile > 50 or
\* idle_time_minutes > 120; a record whose speed before the cap is over 80
\* is never accepted.
C10_OutlierThresholds ==
    \A k \in Done :
        Len(outcomes[k].stages) = Len(StageOrder) =>
            /\ outcomes[k].verdict \in { "outlier", "accepted" }
            /\ outcomes[k].verdict = "outlier" <=>
                   \/ Gt(rawData[k]["trip_speed_mph"].v, Int2Rat(80))
                   \/ Gt(rawData[k]["fare_per_mile"].v, Int2Rat(50))
                   \/ Gt(rawData[k]["idle_time_minutes"].v, Int2Rat(120))
            /\ UnclampedSpeedOver80(rawData[k]) =>
                   outcomes[k].verdict = "outlier"

C10_Witness ==
    \E k \in Done :
        /\ outcomes[k].verdict = "accepted"
        /\ rawData[k]["trip_speed_mph"].v = Int2Rat(80)

\* a cell that holds a number that is not NaN and not negative
NonNegativeNumber(c) == c.t = "num" /\ ~IsNaN(c.v) /\ c.v.n >= 0

\* C11: every accepted record carries trip_speed_mph, fare_per_mile and
\* idle_time_minutes, each a number >= 0.
C11_DerivedNonNegative ==
    \A k \in 1..Len(processedRecords) :
        /\ NonNegativeNumber(processedRecords[k].rec["trip_speed_mph"])
        /\ NonNegativeNumber(processedRecords[k].rec["fare_per_mile"])
        /\ NonNegativeNumber(processedRecords[k].rec["idle_time_minutes"])

\* trip_distance * 3600 / trip_duration, for distance and duration > 0
MilesPerHour(m, t) == Rat(m.n * 3600, m.d * t.n)

\* C12: trip_speed_mph is min(100, trip_distance / (trip_duration / 3600))
\* when trip_distance > 0 and trip_duration > 0, and 0 otherwise.
C12_TripSpeed ==
    \A k \in 1..Len(rawData) :
        Derived(k) =>
            LET m == rawData[k]["trip_distance"].v
                t == rawData[k]["trip_duration"].v
                speed == rawData[k]["trip_speed_mph"].v
            IN  IF Gt(m, Int2Rat(0)) /\ Gt(t, Int2Rat(0))
                THEN IF Gt(MilesPerHour(m, t), Int2Rat(100))
                     THEN speed = Int2Rat(100)
                     ELSE speed = MilesPerHour(m, t)
                ELSE speed = Int2Rat(0)

C12_Witness ==
    \E k \in 1..Len(rawData) :
        /\ Derived(k)
        /\ rawData[k]["trip_distance"].v = Int2Rat(10)
        /\ rawData[k]["trip_duration"].v = Int2Rat(3600)
        /\ rawData[k]["trip_speed_mph"].v = Int2Rat(10)

\* C13: fare_per_mile is fare_amount / trip_distance when trip_distance > 0
\* and 0 when trip_distance is 0: a number, never an error or a division by
\* zero.
C13_FarePerMile ==
    \A k \in 1..Len(rawData) :
        Derived(k) =>
            LET m == rawData[k]["trip_distance"].v
                fare == rawData[k]["fare_amount"].v
                perMile == rawData[k]["fare_per_mile"]
            IN  /\ perMile.t = "num"
                /\ Gt(m, Int2Rat(0)) =>
                       perMile.v = IF IsNaN(fare) THEN NaN
                                   ELSE Rat(fare.n * m.d, fare.d * m.n)
                /\ m = Int2Rat(0) => perMile.v = Int2Rat(0)

C13_Witness ==
    \E k \in 1..Len(rawData) :
        /\ Derived(k)
        /\ rawData[k]["trip_distance"].v = Int2Rat(0)
        /\ rawData[k]["fare_amount"].v = Int2Rat(12)
        /\ rawData[k]["fare_per_mile"].v = Int2Rat(0)

\* the record reached the n-th stage of cleanRecord
Reached(k, n) == k \in Done /\ Len(outcomes[k].stages) >= n

\* the record passed the n-th stage of cleanRecord
Passed(k, n) == k \in Done /\ Len(outcomes[k].stages) > n

\* C14: validateTimestamps rejects with invalid_timestamps when a timestamp
\* does not parse, when dropoff precedes pickup and when the duration is below
\* 30 or above 86400; a record whose pickup validateTimestamps accepts and
\* whose duration is in 30..86400, both ends included, passes with
\* trip_duration = dropoff - pickup in seconds.
C14_DurationRange ==
    \A k \in Done :
        Reached(k, 2) =>
            LET p == inputFile[k]["pickup_datetime"]
                q == inputFile[k]["dropoff_datetime"]
                parse == MomentValid(p) /\ MomentValid(q)
                duration == q.v.n - p.v.n
            IN  /\ (~parse \/ duration < 30 \/ duration > 86400) =>
                       /\ outcomes[k].verdict = "invalid_timestamps"
                       /\ ~Passed(k, 2)
                /\ ( /\ parse
                     /\ duration >= 30
                     /\ duration <= 86400
                     /\ p.v.n >= startDate
                     /\ p.v.n <= endDate ) =>
                       /\ Passed(k, 2)
                       /\ rawData[k]["trip_duration"] = Num(Int2Rat(duration))

C14_Witness ==
    \E k \in Done :
        /\ Passed(k, 2)
        /\ rawData[k]["trip_duration"] = Num(Int2Rat(86400))

\* the cell is not the text of a number inside the NYC box: latitude
\* 40.4774..40.9176, longitude -74.2591..-73.7004
BadCoordinate(f, c) ==
    \/ ~(c.t = "str" /\ c.k = "num")
    \/ IF f \in { "pickup_latitude", "dropoff_latitude" }
       THEN Lt(c.v, Rat(404774, 10000)) \/ Gt(c.v, Rat(409176, 10000))
       ELSE Lt(c.v, Rat(-742591, 10000)) \/ Gt(c.v, Rat(-737004, 10000))

\* C15: a record that passed the missing-value and timestamp stages is
\* rejected with invalid_coordinates exactly when one of its four coordinates
\* does not parse or lies outside the box; the edges of the box pass.
C15_CoordinateBox ==
    \A k \in Done :
        Reached(k, 3) =>
            ( outcomes[k].verdict = "invalid_coordinates"
              <=> \E n \in 1..Len(coords) :
                      BadCoordinate(coords[n], inputFile[k][coords[n]]) )

C15_Witness ==
    \E k \in Done :
        /\ Passed(k, 3)
        /\ inputFile[k]["dropoff_longitude"] = NumStr(-737004, 10000)

\* the critical fields of the record that are present are all strings, as
\* the CSV reader delivers them
CriticalAreStrings(row) == \A f \in CriticalSet : row[f].t # "num"

\* C16 as stated: a record is rejected with missing_critical_data if and
\* only if one of the six critical fields is absent or empty.
C16_AbsentOrEmptyOnly ==
    \A k \in Done :
        CriticalAreStrings(inputFile[k]) =>
            ( outcomes[k].verdict = "missing_critical_data"
              <=> \E f \in CriticalSet : inputFile[k][f] \in { Undef, EmptyStr } )

\* C16 amended: a record whose critical fields are strings or absent is
\* rejected with missing_critical_data if and only if one of the six critical
\* fields is absent, empty or only whitespace; no other field matters.
C16_MissingCritical ==
    \A k \in Done :
        CriticalAreStrings(inputFile[k]) =>
            ( outcomes[k].verdict = "missing_critical_data"
              <=> \E f \in CriticalSet :
                      inputFile[k][f] \in { Undef, EmptyStr, BlankStr } )

C16_Witness ==
    \E k \in Done :
        /\ \E f \in CriticalSet : inputFile[k][f] = BlankStr
        /\ \A f \in CriticalSet : inputFile[k][f] \notin { Undef, EmptyStr }
        /\ outcomes[k].verdict = "missing_critical_data"

\* the default the spec names for a non-critical field
DefaultOf(f) == IF f \in { "passenger_count", "payment_type" } THEN 1 ELSE 0

\* the row with its defaults written out as text where a non-critical cell
\* is absent or empty
Defaulted(row) ==
    [f \in Fields |->
        IF f \in NonCritical /\ row[f] \in { Undef, EmptyStr }
        THEN NumStr(DefaultOf(f), 1)
        ELSE row[f]]

\* C17: in a record that passed handleMissingValues every absent or empty
\* non-critical field holds its default (passenger_count 1, payment_type 1,
\* the others 0), the record ends as the same record with the defaults
\* written out would end, and a record that lacks only non-critical fields
\* and is otherwise the well-formed trip is accepted.
C17_DefaultsFilled ==
    \A k \in Done :
        Passed(k, 1) =>
            /\ \A f \in NonCritical :
                   inputFile[k][f] \in { Undef, EmptyStr } =>
                       rawData[k][f] = Num(Int2Rat(DefaultOf(f)))
            /\ outcomes[k].verdict = cleanRecord(Defaulted(inputFile[k])).verdict
            /\ (\A f \in Fields \ NonCritical : inputFile[k][f] = BaseRow[f]) /\
               (\A f \in NonCritical :
                    inputFile[k][f] \in { Undef, EmptyStr, BaseRow[f] }) =>
                   outcomes[k].verdict = "accepted"

C17_Witness ==
    \E k \in Done :
        /\ \A f \in NonCritical : inputFile[k][f] = Undef
        /\ outcomes[k].verdict = "accepted"
        /\ rawData[k]["passenger_count"] = Num(Int2Rat(1))
        /\ rawData[k]["total_amount"] = Num(Int2Rat(0))

\* C18: in a cleanData call that starts with an empty exclusion log, the
\* index of every exclusion entry is the input position of a record that was
\* not accepted (with that record's reason), and every excluded input
\* position has exactly one entry.
C18_ExclusionIndex ==
    excludedAtStart = 0 =>
        /\ \A e \in 1..Len(excludedRecords) :
               LET k == excludedRecords[e].index + 1
               IN  /\ k \in Done
                   /\ outcomes[k].verdict # "accepted"
                   /\ outcomes[k].verdict = excludedRecords[e].reason
        /\ \A k \in Done :
               outcomes[k].verdict # "accepted" =>
                   Cardinality({ e \in 1..Len(excludedRecords) :
                                     excludedRecords[e].index = k - 1 }) = 1

C18_Witness ==
    /\ excludedAtStart = 0
    /\ run = 1
    /\ Len(outcomes) = 2
    /\ outcomes[1].verdict = "accepted"
    /\ Len(processedRecords) = 1
    /\ Len(excludedRecords) = 1
    /\ excludedRecords[1].index = 1

\* C19: what a record ends as (accepted or not, the reason, the fields it is
\* left with) is what cleanRecord makes of that record alone, wherever it
\* stands in the batch and whatever stands next to it; equal rows of a batch
\* end alike and the record kept for an accepted row is that row's own.
C19_OwnFieldsOnly ==
    /\ \A k \in Done :
           [verdict |-> outcomes[k].verdict, rec |-> rawData[k]]
               = cleanRecord(inputFile[k])
    /\ \A a, b \in Done :
           inputFile[a] = inputFile[b] =>
               outcomes[a] = outcomes[b] /\ rawData[a] = rawData[b]
    /\ \A j \in 1..Len(processedRecords) :
           processedRecords[j].ref[1] = run =>
               processedRecords[j].rec =
                   cleanRecord(inputFile[processedRecords[j].ref[2] + 1]).rec

C19_Witness ==
    /\ pc = "report"
    /\ Len(outcomes) = 2
    /\ inputFile[1] # inputFile[2]
    /\ outcomes[1].verdict = "invalid_timestamps"
    /\ outcomes[2].verdict = "accepted"
    /\ rawData[2] = cleanRecord(inputFile[2]).rec

\* the rows of the cleaned file as loadData binds them
FileBound == [k \in 1..Len(csvFile.rows) |-> BindRow(csvFile.rows[k])]

\* C20: loadData is all-or-nothing: when it has returned, every row of the
\* file is in trips and the returned count is the number of rows inserted;
\* when it has failed, no row of the load is in trips.
C20_AllOrNothing ==
    /\ lpc = "returned" => trips = FileBound /\ loadResult = Len(trips)
    /\ lpc \in { "thrown", "crashed" } => trips = <<>>

\* the input positions of the records of this run that were accepted, in
\* input order
AcceptedOfRun ==
    SelectSeq([k \in 1..Len(outcomes) |-> k],
              LAMBDA k : outcomes[k].verdict = "accepted")

\* C21: the table a cleanData call writes has one row per record that call
\* accepted, in the order of the accepted records, each row holding the
\* eighteen columns of its record as writeCleanedData writes them.
C21_OutputTable ==
    pc = "report" =>
        LET table == written[Len(written)]
        IN  /\ Len(table) = Len(AcceptedOfRun)
            /\ \A j \in 1..Len(table) :
                   j <= Len(AcceptedOfRun) =>
                       table[j] = CsvRow(rawData[AcceptedOfRun[j]])

ReasonCodes ==
    { "missing_critical_data", "invalid_timestamps", "invalid_coordinates",
      "invalid_trip_metrics", "invalid_fare_data", "outlier",
      "processing_error" }

RECURSIVE SumOf(_, _)
SumOf(h, keys) ==
    IF keys = {} THEN 0
    ELSE LET r == CHOOSE x \in keys : TRUE
         IN  h[r] + SumOf(h, keys \ { r })

\* C23: in the report a cleanData call builds, the keys of the histogram are
\* reason codes, the count of each reason is the number of records of this
\* call excluded with that reason, and the counts sum to the call's
\* excluded-record count.
C23_ReasonHistogram ==
    (pc = "failed" /\ error = "ReferenceError") =>
        LET report == reports[Len(reports)]
            h == report.exclusionReasons
        IN  /\ DOMAIN h \subseteq ReasonCodes
            /\ \A r \in ReasonCodes :
                   (IF r \in DOMAIN h THEN h[r] ELSE 0) =
                       Cardinality({ k \in Done : outcomes[k].verdict = r })
            /\ SumOf(h, DOMAIN h) = report.summary.excludedRecords
            /\ report.summary.excludedRecords = excludedCount

\* the number a cell of the input row stands for once the defaults are in;
\* NaN when the text is not a number
ValueOf(row, f) == parseFloat(Defaulted(row)[f]).v

\* the whole number a cell of the input row stands for
CountOf(row, f) == parseInt(Defaulted(row)[f]).v

\* C22: a record that reached validateTripMetrics is rejected with
\* invalid_trip_metrics exactly when passenger_count is outside 1..6 or
\* trip_distance outside [0,500]; a record that reached validateFareData is
\* rejected with invalid_fare_data exactly when fare_amount is outside
\* [0,1000], tip_amount outside [0,500], tolls_amount outside [0,100],
\* total_amount outside [0,2000] or payment_type outside 1..6.
C22_RangeChecks ==
    \A k \in Done :
        LET row == inputFile[k]
        IN  /\ Reached(k, 4) =>
                ( outcomes[k].verdict = "invalid_trip_metrics"
                  <=> \/ ~Between(CountOf(row, "passenger_count"), 1, 6)
                      \/ ~Between(ValueOf(row, "trip_distance"), 0, 500) )
            /\ Reached(k, 5) =>
                ( outcomes[k].verdict = "invalid_fare_data"
                  <=> \/ ~Between(ValueOf(row, "fare_amount"), 0, 1000)
                      \/ ~Between(ValueOf(row, "tip_amount"), 0, 500)
                      \/ ~Between(ValueOf(row, "tolls_amount"), 0, 100)
                      \/ ~Between(ValueOf(row, "total_amount"), 0, 2000)
                      \/ ~Between(CountOf(row, "payment_type"), 1, 6) )

\* the part of C22 that holds: the same, for records whose seven non-critical
\* cells are numbers once the defaults are in
NumericRow(row) == \A f \in NonCritical : ~IsNaN(ValueOf(row, f))

C22_RangeChecksOnNumbers ==
    \A k \in Done :
        NumericRow(inputFile[k]) =>
            LET row == inputFile[k]
            IN  /\ Reached(k, 4) =>
                    ( outcomes[k].verdict = "invalid_trip_metrics"
                      <=> \/ ~Between(CountOf(row, "passenger_count"), 1, 6)
                          \/ ~Between(ValueOf(row, "trip_distance"), 0, 500) )
                /\ Reached(k, 5) =>
                    ( outcomes[k].verdict = "invalid_fare_data"
                      <=> \/ ~Between(ValueOf(row, "fare_amount"), 0, 1000)
                          \/ ~Between(ValueOf(row, "tip_amount"), 0, 500)
                          \/ ~Between(ValueOf(row, "tolls_amount"), 0, 100)
                          \/ ~Between(ValueOf(row, "total_amount"), 0, 2000)
                          \/ ~Between(CountOf(row, "payment_type"), 1, 6) )


-----------------------------------------------------------------------------
(* The dashboard *)

\* the step is the call of the user operation op
CallOf(op) == ops' = ops + 1 /\ lastOp' = op

Occurrences(s, t) == Cardinality({ k \in 1..Len(s) : s[k] = t })

IsPermutation(s, t) ==
    /\ Len(s) = Len(t)
    /\ \A k \in 1..Len(s) : Occurrences(s, s[k]) = Occurrences(t, s[k])

\* the place of the trip with this id
PlaceOf(s, id) == CHOOSE k \in 1..Len(s) : s[k] = id

OrderedBy(s, field, direction) ==
    \A k \in 1..(Len(s) - 1) :
        IF direction = "asc"
        THEN SortKey(s[k], field) <= SortKey(s[k + 1], field)
        ELSE SortKey(s[k], field) >= SortKey(s[k + 1], field)

KeepsOrderOfEquals(old, new, field) ==
    \A a, b \in 1..Len(old) :
        a < b /\ SortKey(old[a], field) = SortKey(old[b], field)
            => PlaceOf(new, old[a]) < PlaceOf(new, old[b])

C24_SortStep ==
    CallOf("sortTable") =>
        /\ IsPermutation(filteredTrips, filteredTrips')
        /\ OrderedBy(filteredTrips', currentSort', sortDirection')
        /\ KeepsOrderOfEquals(filteredTrips, filteredTrips', currentSort')

\* C24: a call of sortTable leaves filteredTrips a permutation of what it was,
\* ordered by the chosen field, non-decreasing when the resulting direction is
\* 'asc' and non-increasing when it is 'desc', and trips with equal keys keep
\* their relative order.
C24_SortTable == [][C24_SortStep]_vars

\* C24 witness: sortTable has just ordered a list in which two trips have the
\* same fare and two others do not, and the order is not the one of allTrips.
C24_Witness ==
    /\ lastOp = "sortTable"
    /\ completed = "none"
    /\ currentSort = "fare"
    /\ sortDirection = "asc"
    /\ filteredTrips # allTrips
    /\ OrderedBy(filteredTrips, "fare", "asc")
    /\ \E a, b \in 1..Len(filteredTrips) :
           a < b /\ SortKey(filteredTrips[a], "fare")
                        = SortKey(filteredTrips[b], "fare")
    /\ \E a, b \in 1..Len(filteredTrips) :
           SortKey(filteredTrips[a], "fare") < SortKey(filteredTrips[b], "fare")

\* C25: when applyFilters has completed, the metrics shown are the statistics
\* of the trips in filteredTrips, whether the API was reachable or not.
C25_MetricsOfFiltered ==
    (completed = "applyFilters" /\ lastOp = "applyFilters" /\ inflight = <<>>)
        => shownStats = updateStatsDisplay(LocalStats(filteredTrips))

TotalPages == (Len(filteredTrips) + itemsPerPage - 1) \div itemsPerPage

C29_PageStep ==
    /\ Len(filteredTrips') # Len(filteredTrips) => currentPage' = 1
    /\ CallOf("changePage") =>
           /\ currentPage' \in { currentPage - 1, currentPage, currentPage + 1 }
           /\ 1 <= currentPage'
           /\ currentPage' <= (IF TotalPages > 1 THEN TotalPages ELSE 1)

\* C29: after any interleaving of the dashboard operations currentPage is
\* between 1 and max(1, ceil(filteredTrips.length / itemsPerPage)); changePage
\* never leaves that range and a step that changes the length of filteredTrips
\* leaves currentPage at 1.
C29_CurrentPage ==
    /\ [](1 <= currentPage
          /\ currentPage <= (IF TotalPages > 1 THEN TotalPages ELSE 1))
    /\ [][C29_PageStep]_vars

\* C29 witness: changePage was called on the last page of a full page of
\* trips, and the page did not move.
C29_Witness ==
    /\ lastOp = "changePage"
    /\ ops > 0
    /\ Len(filteredTrips) = itemsPerPage
    /\ currentPage = TotalPages

C30_SortStep ==
    CallOf("sortTable") =>
        IF currentSort' = currentSort
        THEN sortDirection' # sortDirection
        ELSE sortDirection' = sortDirection

\* C30: sortTable toggles sortDirection only when the chosen field is the
\* field of the previous sort; another field changes currentSort and leaves
\* sortDirection as it was.
C30_ToggleOnlySameField == [][C30_SortStep]_vars

-----------------------------------------------------------------------------
(* processData *)

Steps == << "findTrainZip", "extractZipFile", "cleanData", "loadIntoDatabase" >>

\* the step that has failed, "none" if none has
FailedStep ==
    IF stepsRun # <<>> /\ zipAt = 0 THEN "findTrainZip"
    ELSE IF Len(stepsRun) >= 2 /\ zipEntries # "csv" THEN "extractZipFile"
    ELSE IF Len(stepsRun) >= 3 /\ pc = "failed" THEN "cleanData"
    ELSE "none"

C26_Order ==
    /\ IsPrefix(stepsRun, Steps)
    /\ FailedStep # "none" =>
           /\ stepsRun[Len(stepsRun)] = FailedStep
           /\ ~successPrinted
           /\ exitCode \in { -1, 1 }
           /\ ppc \in { "catch", "exited" } \/ (ppc = "cleaning" /\ pc = "failed")
    /\ ppc = "exited" => exitCode = 1

\* C26: processData runs find, extract, clean, load in that order; when a
\* step fails no later step runs, the success message is not printed, and the
\* run ends with exit code 1.
C26_Pipeline == [](C26_Order) /\ ((FailedStep # "none") ~> (exitCode = 1))

\* C26 witness: train.zip is in none of the three locations; the run has
\* ended with exit code 1 after step 1 alone.
C26_Witness ==
    /\ zipAt = 0
    /\ stepsRun = << "findTrainZip" >>
    /\ ppc = "exited"
    /\ exitCode = 1
    /\ ~successPrinted

-----------------------------------------------------------------------------
(* The cleaned file, from writeCleanedData to insertBatch *)

\* insertBatch binds for column h of the written row the value the accepted
\* record has in h
ReadBackSame(rec, row, h) ==
    LET b == BindRow(row)[h]
    IN  IF h \in textColumns THEN b = StringOf(rec[h])
        ELSE /\ rec[h].t = "num"
             /\ b.t = "num"
             /\ ~IsNaN(b.v)
             /\ b.v = rec[h].v

\* C27: every column value writeCleanedData writes for an accepted record is
\* read back by insertBatch as the same value, a value of 0 included, and the
\* row satisfies the NOT NULL and CHECK constraints of table trips.
C27_RoundTrip ==
    written # <<>> =>
        LET table == written[Len(written)]
        IN  \A k \in 1..Len(table) :
                /\ \A h \in Fields :
                       ReadBackSame(processedRecords[k].rec, table[k], h)
                /\ Insertable(table[k])

-----------------------------------------------------------------------------
(* The cache of the API client *)

\* the step is a step of API.request or clearCache of this kind
Does(kind) == lastRequest'.kind = kind /\ apiVars' # apiVars

KeyOf == lastRequest'.key

C28_CacheStep ==
    /\ Does("cached") =>
           /\ cache[KeyOf].present
           /\ now - cache[KeyOf].timestamp < cacheTimeout
           /\ lastRequest'.data = cache[KeyOf].data
           /\ KeyOf \in sentSinceClear
    /\ Does("fetch") =>
           /\ ~cache[KeyOf].present \/ now - cache[KeyOf].timestamp >= cacheTimeout
           /\ ~cache'[KeyOf].present
    /\ \A k \in Keys :
           (cache'[k].present /\ cache'[k] # cache[k])
               => (Does("stored") /\ KeyOf = k)
    /\ Does("failed") => ~cache'[KeyOf].present

\* C28: a request is answered from the cache only when an entry for its key
\* was stored less than cacheTimeout earlier; an entry that has reached the
\* timeout is deleted and the request is fetched; only ok responses are
\* stored; a failed request leaves no entry for its key; after clearCache
\* every request is fetched again.
C28_Cache == [][C28_CacheStep]_vars

\* a request is answered from the cache only from an entry stored less than
\* cacheTimeout earlier, an entry that has reached the timeout is deleted and
\* fetched again, and only ok responses are stored
C28_FreshOnly ==
    [][/\ Does("cached") =>
              /\ cache[KeyOf].present
              /\ now - cache[KeyOf].timestamp < cacheTimeout
              /\ lastRequest'.data = cache[KeyOf].data
       /\ Does("fetch") =>
              /\ ~cache[KeyOf].present
                     \/ now - cache[KeyOf].timestamp >= cacheTimeout
              /\ ~cache'[KeyOf].present
       /\ \A k \in Keys :
              (cache'[k].present /\ cache'[k] # cache[k])
                  => (Does("stored") /\ KeyOf = k)]_vars

=============================================================================
